---- MODULE Spec2Model ----
(***************************************************************************)
(* Attribution engine of jscraik/narrative (src-tauri/src/attribution):    *)
(* the line-attribution store and its population state machine (ensure),   *)
(* the attribution-note codec and note import, over a repository with a    *)
(* fixed history.  Asynchronous handlers are processes: every action is    *)
(* one segment of a handler between two suspension points (awaits).        *)
(***************************************************************************)
EXTENDS Bags, FiniteSets, Integers, Sequences, TLC

VARIABLES
    line_attributions,          \* table line_attributions: a bag of rows
    commit_rewrite_keys,        \* table commit_rewrite_keys: (repo, sha) -> Option entry
    commit_contribution_stats,  \* table commit_contribution_stats: (repo, sha) -> Option stats
    attribution_note_meta,      \* table attribution_note_meta: set of (repo, sha, note_ref)
    attribution_prefs,          \* table attribution_prefs: repo ids with a row
    session_links,              \* table session_links: (repo, sha) -> session ids, best first
    notes,                      \* git notes of the repository: ref -> (repo, sha) -> Option note
    now,                        \* CURRENT_TIMESTAMP of the store, in seconds
    tasks,                      \* the running handlers: task id -> call frame
    discipline,                 \* how callers schedule calls
    calls,                      \* number of calls started so far
    faults,                     \* number of failed store/repository operations so far
    probe,                      \* a call of a pure function: its input and its result
    runtime,                    \* OtelReceiverState.runtime: Option of the receiver whose sender it holds
    receivers                   \* the receivers started so far, in the order of their start

vars == <<line_attributions, commit_rewrite_keys, commit_contribution_stats,
          attribution_note_meta, attribution_prefs, session_links, notes, now,
          tasks, discipline, calls, faults, probe, runtime, receivers>>

(***************************************************************************)
(* Bounds of the model.                                                    *)
(***************************************************************************)
MaxCalls == 3
MaxFaults == 1
MaxRanges == 3
MaxNoteSize == 4
MaxRows == 3
MaxBatch == 2
MaxPatch == 4
MaxDiff == 2
MaxLinks == 3
MaxFold == 3
MaxText == 4
MaxLine == 5
MaxReceivers == 3

(***************************************************************************)
(* Option<T>: None is the empty tuple, Some(v) the one-element tuple.      *)
(***************************************************************************)
None == <<>>
Some(v) == <<v>>
IsSome(o) == o # <<>>
IsNone(o) == o = <<>>
Unwrap(o) == o[1]
OrElse(o, p) == IF IsSome(o) THEN o ELSE p

Max(a, b) == IF a >= b THEN a ELSE b

RECURSIVE SeqToBag(_)
SeqToBag(s) == IF s = <<>> THEN EmptyBag ELSE SetToBag({Head(s)}) (+) SeqToBag(Tail(s))

Range(s) == {s[i] : i \in 1..Len(s)}

Perms(S) == {p \in [1..Cardinality(S) -> S] : \A i, j \in 1..Cardinality(S) : p[i] = p[j] => i = j}

(***************************************************************************)
(* The repository: three commits of repo 1 (c2 is c1 rewritten: the same   *)
(* patch up to whitespace), and a second registered repo holding c1.       *)
(***************************************************************************)
RepoIds == {1, 2}
CommitsOf(repo_id) == IF repo_id = 1 THEN {"c1", "c2", "c3"} ELSE {"c1"}
Keys == {k \in RepoIds \X {"c1", "c2", "c3"} : k[2] \in CommitsOf(k[1])}

DiffLine(path, origin, new_lineno, content) ==
    [path |-> path, origin |-> origin, new_lineno |-> new_lineno, content |-> content]

\* The zero-context patch of a commit against its first parent, as the lines
\* git2 hands to a DiffFormat::Patch callback: file headers (F), hunk headers
\* (H), deletions (-) and additions (+ with the new line number).
CommitDiff(commit_sha) ==
    IF commit_sha \in {"c1", "c2"} THEN
        << DiffLine("a.py", "F", None, <<"d">>),
           DiffLine("a.py", "H", None, <<"@">>),
           DiffLine("a.py", "+", Some(1),
                    IF commit_sha = "c1" THEN <<"x", "=", "1">> ELSE <<"x", " ", "=", " ", "1">>),
           DiffLine("a.py", "+", Some(2), <<"y">>),
           DiffLine("b.py", "F", None, <<"d">>),
           DiffLine("b.py", "H", None, <<"@">>),
           DiffLine("b.py", "-", None, <<"o">>),
           DiffLine("b.py", "+", Some(3), <<"n">>) >>
    ELSE IF commit_sha = "c0" THEN
        << DiffLine("b.py", "F", None, <<"d">>),
           DiffLine("b.py", "H", None, <<"@">>),
           DiffLine("b.py", "-", None, <<"o">>) >>
    ELSE
        << DiffLine("b.py", "F", None, <<"d">>),
           DiffLine("b.py", "H", None, <<"@">>),
           DiffLine("b.py", "+", Some(1), <<"z">>) >>

TreeId(commit_sha) == IF commit_sha \in {"c1", "c2"} THEN "t1" ELSE "t3"

\* Number of lines of a file's blob at a commit (load_file_lines).
FileLines(commit_sha, file_path) ==
    IF commit_sha \in {"c1", "c2"}
    THEN (IF file_path = "a.py" THEN 3 ELSE IF file_path = "b.py" THEN 4 ELSE 0)
    ELSE (IF file_path = "b.py" THEN 2 ELSE 0)

\* list_commit_files: the new-side paths of the deltas, collected in a HashSet.
list_commit_files(commit_sha) == {l.path : l \in Range(CommitDiff(commit_sha))}

(***************************************************************************)
(* Range Extractor (single file).                                          *)
(***************************************************************************)
ChangedRange(start_line, end_line, kind) ==
    [start_line |-> start_line, end_line |-> end_line, kind |-> kind]

RangeState0 ==
    [current_start |-> None, previous_line |-> None, current_kind |-> None,
     saw_deletion |-> FALSE, ranges |-> <<>>]

RunOpen(st) == IsSome(st.current_start) /\ IsSome(st.previous_line) /\ IsSome(st.current_kind)

PushRun(st) ==
    IF RunOpen(st)
    THEN Append(st.ranges, ChangedRange(Unwrap(st.current_start), Unwrap(st.previous_line),
                                        Unwrap(st.current_kind)))
    ELSE st.ranges

\* Variant: a deletion drops the open run instead of pushing it.
RangeLineDropOnDeletion(st, line) ==
    IF line.origin = "-" THEN
        [st EXCEPT !.current_start = None, !.previous_line = None,
                   !.current_kind = None, !.saw_deletion = TRUE]
    ELSE IF line.origin = "+" THEN
        IF IsNone(line.new_lineno) THEN st
        ELSE LET new_line == Unwrap(line.new_lineno) IN
             IF IsSome(st.current_start) /\ IsSome(st.previous_line)
                /\ new_line = Unwrap(st.previous_line) + 1
             THEN [st EXCEPT !.previous_line = Some(new_line)]
             ELSE [st EXCEPT !.ranges = PushRun(st),
                             !.current_start = Some(new_line),
                             !.previous_line = Some(new_line),
                             !.current_kind = Some(IF st.saw_deletion THEN "Modified" ELSE "Added")]
    ELSE IF IsSome(st.current_start) THEN
        [st EXCEPT !.ranges = PushRun(st), !.current_start = None,
                   !.previous_line = None, !.current_kind = None,
                   !.saw_deletion = FALSE]
    ELSE st

\* One invocation of the diff.print callback of collect_changed_ranges.
RangeLine(st, line) ==
    IF line.origin = "-" THEN
        IF RunOpen(st)
        THEN [st EXCEPT !.ranges = PushRun(st), !.current_start = None,
                        !.previous_line = None, !.current_kind = None,
                        !.saw_deletion = TRUE]
        ELSE [st EXCEPT !.saw_deletion = TRUE]
    ELSE IF line.origin = "+" THEN
        IF IsNone(line.new_lineno) THEN st
        ELSE LET new_line == Unwrap(line.new_lineno) IN
             IF IsSome(st.current_start) /\ IsSome(st.previous_line)
                /\ new_line = Unwrap(st.previous_line) + 1
             THEN [st EXCEPT !.previous_line = Some(new_line)]
             ELSE [st EXCEPT !.ranges = PushRun(st),
                             !.current_start = Some(new_line),
                             !.previous_line = Some(new_line),
                             !.current_kind = Some(IF st.saw_deletion THEN "Modified" ELSE "Added")]
    ELSE IF IsSome(st.current_start) THEN
        [st EXCEPT !.ranges = PushRun(st), !.current_start = None,
                   !.previous_line = None, !.current_kind = None,
                   !.saw_deletion = FALSE]
    ELSE st

RECURSIVE RangeFold(_, _)
RangeFold(st, lines) ==
    IF lines = <<>> THEN st ELSE RangeFold(RangeLine(st, Head(lines)), Tail(lines))

collect_changed_ranges(commit_sha, file_path) ==
    LET selected == SelectSeq(CommitDiff(commit_sha), LAMBDA l : l.path = file_path)
    IN PushRun(RangeFold(RangeState0, selected))

(***************************************************************************)
(* Rewrite-Key Hasher.  SHA-256 is taken to be collision free: a digest is *)
(* represented by the byte chunks fed to the hasher.                       *)
(***************************************************************************)
IsWhitespace(ch) == ch \in {" ", "\t"}

\* Variant: the line is hashed as it is.
KeepWhitespace(line) == line

normalize_patch_line(line) == SelectSeq(line, LAMBDA ch : ~IsWhitespace(ch))

StartsWith(s, prefix) == Len(s) >= Len(prefix) /\ SubSeq(s, 1, Len(prefix)) = prefix

Sha256Hex(chunks) == [sha256 |-> chunks]

RECURSIVE HashedChunks(_)
HashedChunks(lines) ==
    IF lines = <<>> THEN <<>>
    ELSE LET l == Head(lines) IN
         IF l.origin \notin {"+", "-"} THEN HashedChunks(Tail(lines))
         ELSE IF StartsWith(l.content, <<"+", "+", "+", " ">>)
                 \/ StartsWith(l.content, <<"-", "-", "-", " ">>)
              THEN HashedChunks(Tail(lines))
         ELSE <<[path |-> l.path, origin |-> l.origin, text |-> normalize_patch_line(l.content)]>>
              \o HashedChunks(Tail(lines))

\* Variant: the tree id is hashed after the lines in every case.
RewriteKeyWithTree(lines, tree_id) ==
    Sha256Hex(HashedChunks(lines) \o <<[path |-> "", origin |-> "tree", text |-> <<tree_id>>]>>)

\* compute_rewrite_key, lines 292-336: the digest of the lines the diff hands
\* to the callback, or of the tree id when none of them is hashed.
RewriteKeyOfDiff(lines, tree_id) ==
    LET chunks == HashedChunks(lines) IN
    IF chunks = <<>>
    THEN Sha256Hex(<<[path |-> "", origin |-> "tree", text |-> <<tree_id>>]>>)
    ELSE Sha256Hex(chunks)

compute_rewrite_key(commit_sha) == RewriteKeyOfDiff(CommitDiff(commit_sha), TreeId(commit_sha))

REWRITE_KEY_ALGORITHM == "patch-id"

(***************************************************************************)
(* Sessions (owned by session linking; read-only here).                    *)
(***************************************************************************)
SessionIds == {"s1", "s2", "s3", "s4"}

\* sessions.files is a JSON text: a list of paths, or a text that is no list.
FilesJson(ok, paths) == [ok |-> ok, paths |-> paths]

sessions(id) ==
    IF id = "s1" THEN
        [tool |-> Some("codex"), model |-> Some("gpt"), conversation_id |-> Some("conv1"),
         files |-> Some(FilesJson(TRUE, <<"a.py">>)), trace_available |-> 1]
    ELSE IF id = "s2" THEN
        [tool |-> Some("claude"), model |-> None, conversation_id |-> None,
         files |-> Some(FilesJson(TRUE, <<"a.py", "b.py">>)), trace_available |-> 0]
    ELSE IF id = "s4" THEN
        [tool |-> None, model |-> None, conversation_id |-> None,
         files |-> Some(FilesJson(FALSE, <<"b.py">>)), trace_available |-> 0]
    ELSE
        [tool |-> Some("cursor"), model |-> Some("tab"), conversation_id |-> None,
         files |-> None, trace_available |-> 0]

\* fetch_session_meta: SELECT tool, model, conversation_id FROM sessions WHERE id = ?
fetch_session_meta(session_id) ==
    IF session_id \in SessionIds
    THEN Some([tool |-> sessions(session_id).tool, model |-> sessions(session_id).model,
               conversation_id |-> sessions(session_id).conversation_id])
    ELSE None

parse_session_files(raw) ==
    IF IsNone(raw) THEN {}
    ELSE IF ~Unwrap(raw).ok THEN {}
    ELSE Range(Unwrap(raw).paths)

(***************************************************************************)
(* Attribution Note Codec: decoding.                                       *)
(*                                                                         *)
(* A note body is a sequence of lines.  A line is its leading indentation  *)
(* and its trimmed text; the text is blank, the separator, a single word,  *)
(* a word followed by a comma separated range list, or a JSON document     *)
(* (kept on one line; payload is None when the text is not valid JSON).    *)
(* A range segment is `a` or `a-b`; a side is Some(n) when it parses as an *)
(* i32 and None otherwise.                                                 *)
(***************************************************************************)
ATTRIBUTION_NOTES_REF == "refs/notes/narrative-attribution"
LEGACY_ATTRIBUTION_NOTES_REF == "refs/notes/ai"
NoteRefs == {ATTRIBUTION_NOTES_REF, LEGACY_ATTRIBUTION_NOTES_REF}

Seg(dash, a, b) == [dash |-> dash, a |-> a, b |-> b]

Line(indent, kind, text, word, segs, payload) ==
    [indent |-> indent, kind |-> kind, text |-> text, word |-> word,
     segs |-> segs, payload |-> payload]

PathLine(indent, path) == Line(indent, "word", path, path, <<>>, None)
RangeLineOf(indent, text, session_id, segs) == Line(indent, "ranges", text, session_id, segs, None)
SepLine(indent) == Line(indent, "sep", "---", "---", <<>>, None)
BlankLine == Line(FALSE, "blank", "", "", <<>>, None)
JsonLine(text, payload) == Line(FALSE, "json", text, "{", <<>>, payload)

NoteRange(session_id, start_line, end_line) ==
    [session_id |-> session_id, start_line |-> start_line, end_line |-> end_line]

NoteFile(path, ranges) == [path |-> path, ranges |-> ranges]

NoteSourceMeta(tool, model, checkpoint_kind, conversation_id) ==
    [tool |-> tool, model |-> model, checkpoint_kind |-> checkpoint_kind,
     conversation_id |-> conversation_id]

DefaultSourceMeta == NoteSourceMeta(None, None, None, None)

\* The JSON tail, as serde reads it.
NotePayload(rewrite_key, rewrite_algorithm, sources) ==
    [rewrite_key |-> rewrite_key, rewrite_algorithm |-> rewrite_algorithm, sources |-> sources]

NoteSourcePayload(agent_id, checkpoint_kind, model) ==
    [agent_id |-> agent_id, checkpoint_kind |-> checkpoint_kind, model |-> model]

NoteAgentId(tool, id, model) == [tool |-> tool, id |-> id, model |-> model]

\* str::parse::<i32>().unwrap_or(d)
ParseOr(tok, d) == IF IsSome(tok) THEN Unwrap(tok) ELSE d

\* Variant: a segment whose start does not parse or is not positive is
\* kept, as a range that starts at the value read.
ParseSegmentKeepAll(session_id, seg) ==
    IF seg.dash THEN
        LET start_line == ParseOr(seg.a, 0)
            end_line == ParseOr(seg.b, start_line)
        IN <<NoteRange(session_id, start_line, end_line)>>
    ELSE
        LET line_num == ParseOr(seg.a, 0)
        IN <<NoteRange(session_id, line_num, line_num)>>

\* The ranges one segment of a range list contributes.
ParseSegment(session_id, seg) ==
    IF seg.dash THEN
        LET start_line == ParseOr(seg.a, 0)
            end_line == ParseOr(seg.b, start_line)
        IN IF start_line > 0 THEN <<NoteRange(session_id, start_line, end_line)>> ELSE <<>>
    ELSE
        LET line_num == ParseOr(seg.a, 0)
        IN IF line_num > 0 THEN <<NoteRange(session_id, line_num, line_num)>> ELSE <<>>

RECURSIVE ParseSegments(_, _)
ParseSegments(session_id, segs) ==
    IF segs = <<>> THEN <<>>
    ELSE ParseSegment(session_id, Head(segs)) \o ParseSegments(session_id, Tail(segs))

ParseState0 == [files |-> <<>>, current_file |-> None, json_lines |-> <<>>, in_json |-> FALSE]

\* Variant: only a line that is `---` from its first character ends the
\* file section.
ParseLineExactSeparator(st, line) ==
    IF ~st.in_json /\ line.kind = "sep" /\ ~line.indent THEN [st EXCEPT !.in_json = TRUE]
    ELSE IF st.in_json THEN [st EXCEPT !.json_lines = Append(@, line)]
    ELSE IF line.kind = "blank" THEN st
    ELSE IF ~line.indent THEN
        [st EXCEPT !.files = IF IsSome(st.current_file)
                             THEN Append(@, Unwrap(st.current_file)) ELSE @,
                   !.current_file = Some(NoteFile(line.text, <<>>))]
    ELSE IF IsNone(st.current_file) THEN st
    ELSE IF line.kind # "ranges" THEN st
    ELSE LET file == Unwrap(st.current_file) IN
         [st EXCEPT !.current_file =
             Some(NoteFile(file.path, file.ranges \o ParseSegments(line.word, line.segs)))]

\* One iteration of the loop over message.lines().
ParseLine(st, line) ==
    IF ~st.in_json /\ line.kind = "sep" THEN [st EXCEPT !.in_json = TRUE]
    ELSE IF st.in_json THEN [st EXCEPT !.json_lines = Append(@, line)]
    ELSE IF line.kind = "blank" THEN st
    ELSE IF ~line.indent THEN
        [st EXCEPT !.files = IF IsSome(st.current_file)
                             THEN Append(@, Unwrap(st.current_file)) ELSE @,
                   !.current_file = Some(NoteFile(line.text, <<>>))]
    ELSE IF IsNone(st.current_file) THEN st
    ELSE IF line.kind # "ranges" THEN st
    ELSE LET file == Unwrap(st.current_file) IN
         [st EXCEPT !.current_file =
             Some(NoteFile(file.path, file.ranges \o ParseSegments(line.word, line.segs)))]

RECURSIVE ParseLines(_, _)
ParseLines(st, lines) ==
    IF lines = <<>> THEN st ELSE ParseLines(ParseLine(st, Head(lines)), Tail(lines))

\* serde_json::from_str::<NotePayload> of the joined and trimmed tail.
ParseJsonTail(json_lines) ==
    LET text == SelectSeq(json_lines, LAMBDA l : l.kind # "blank") IN
    IF Len(text) = 1 /\ text[1].kind = "json" THEN text[1].payload ELSE None

JsonTailIsEmpty(json_lines) == SelectSeq(json_lines, LAMBDA l : l.kind # "blank") = <<>>

\* NotePayload.sources entry -> NoteSourceMeta
SourceMetaOf(source) ==
    NoteSourceMeta(
        IF IsSome(source.agent_id) THEN Unwrap(source.agent_id).tool ELSE None,
        OrElse(IF IsSome(source.agent_id) THEN Unwrap(source.agent_id).model ELSE None,
               source.model),
        source.checkpoint_kind,
        IF IsSome(source.agent_id) THEN Unwrap(source.agent_id).id ELSE None)

EmptySources == [id \in {} |-> DefaultSourceMeta]

ParsedAttributionNote(files, sources, rewrite_key, rewrite_algorithm) ==
    [files |-> files, sources |-> sources, rewrite_key |-> rewrite_key,
     rewrite_algorithm |-> rewrite_algorithm]

\* Variant: a tail that fails to parse voids the file section as well.
ParseAllOrNothing(message) ==
    LET st == ParseLines(ParseState0, message)
        files == IF IsSome(st.current_file)
                 THEN Append(st.files, Unwrap(st.current_file)) ELSE st.files
        payload == IF JsonTailIsEmpty(st.json_lines) THEN None
                   ELSE ParseJsonTail(st.json_lines)
    IN IF IsSome(payload) THEN
           LET p == Unwrap(payload) IN
           ParsedAttributionNote(
               files,
               IF IsSome(p.sources)
               THEN [id \in DOMAIN Unwrap(p.sources) |-> SourceMetaOf(Unwrap(p.sources)[id])]
               ELSE EmptySources,
               p.rewrite_key, p.rewrite_algorithm)
       ELSE ParsedAttributionNote(IF JsonTailIsEmpty(st.json_lines) THEN files ELSE <<>>,
                                  EmptySources, None, None)

parse_attribution_note(message) ==
    LET st == ParseLines(ParseState0, message)
        files == IF IsSome(st.current_file)
                 THEN Append(st.files, Unwrap(st.current_file)) ELSE st.files
        payload == IF JsonTailIsEmpty(st.json_lines) THEN None
                   ELSE ParseJsonTail(st.json_lines)
    IN IF IsSome(payload) THEN
           LET p == Unwrap(payload) IN
           ParsedAttributionNote(
               files,
               IF IsSome(p.sources)
               THEN [id \in DOMAIN Unwrap(p.sources) |-> SourceMetaOf(Unwrap(p.sources)[id])]
               ELSE EmptySources,
               p.rewrite_key, p.rewrite_algorithm)
       ELSE ParsedAttributionNote(files, EmptySources, None, None)

(***************************************************************************)
(* Attribution Note Codec: encoding.                                       *)
(*                                                                         *)
(* The strings that occur as paths and session ids, with what the decoder  *)
(* sees of them: their whitespace separated words, their trimmed text,     *)
(* whether they start with a blank, and their place in byte order.         *)
(***************************************************************************)
Text(s) ==
    LET known == <<"", " pad.py", "---", "a.py", "b.py", "s 1", "s1", "s2", "s3", "s9">> IN
    [words |-> CASE s = "" -> <<>>
                 [] s = " pad.py" -> <<"pad.py">>
                 [] s = "s 1" -> <<"s", "1">>
                 [] OTHER -> <<s>>,
     trim |-> IF s = " pad.py" THEN "pad.py" ELSE s,
     starts_with_blank |-> s = " pad.py",
     rank |-> CHOOSE i \in 1..Len(known) : known[i] = s]

\* Vec::sort_by on a key: a stable sort.
RECURSIVE SortBy(_, _)
SortBy(Key(_), s) ==
    IF s = <<>> THEN <<>>
    ELSE LET rest == SortBy(Key, SubSeq(s, 1, Len(s) - 1))
             x == s[Len(s)]
             k == Cardinality({i \in 1..Len(rest) : Key(rest[i]) <= Key(x)})
         IN SubSeq(rest, 1, k) \o <<x>> \o SubSeq(rest, k + 1, Len(rest))

\* Variant: ranges that only touch are kept apart.
MergeOverlapsOnly(ranges) ==
    LET RECURSIVE Fold(_, _)
        Fold(merged, rest) ==
            IF rest = <<>> THEN merged
            ELSE LET last == merged[Len(merged)] IN
                 IF merged # <<>> /\ Head(rest)[1] <= last[2]
                 THEN Fold([merged EXCEPT ![Len(merged)] =
                               <<last[1], Max(last[2], Head(rest)[2])>>], Tail(rest))
                 ELSE Fold(Append(merged, Head(rest)), Tail(rest))
    IN Fold(<<>>, SortBy(LAMBDA r : r[1], ranges))

\* notes.rs merge_ranges, on pairs <<start, end>>
merge_ranges(ranges) ==
    LET RECURSIVE Fold(_, _)
        Fold(merged, rest) ==
            IF rest = <<>> THEN merged
            ELSE LET start == Head(rest)[1]
                     end == Head(rest)[2]
                     last == merged[Len(merged)]
                 IN IF merged # <<>> /\ start <= last[2] + 1
                    THEN Fold([merged EXCEPT ![Len(merged)] = <<last[1], Max(last[2], end)>>],
                              Tail(rest))
                    ELSE Fold(Append(merged, <<start, end>>), Tail(rest))
    IN Fold(<<>>, SortBy(LAMBDA r : r[1], ranges))

\* Lines 254-263 as lines 142-176 read them back.  A decimal text is a
\* sequence of tokens: the character '-' and runs of digits.  The line
\* "  {session_id} {range_text}" is indented; its first word is taken as the
\* session id and the remaining words, joined, as the comma separated range
\* list, so words of the session id beyond the first end up in front of the
\* first segment ("s 1" is the one id of several words: its second word, in
\* front of a segment that starts with '-', is the start the decoder reads).
LexSessionLine(session_id, merged) ==
    LET Dash == [dash |-> TRUE, digits |-> 0]
        Num(n) == [dash |-> FALSE, digits |-> n]
        \* format!("{n}") of an i32
        FormatI32(n) == IF n < 0 THEN <<Dash, Num(0 - n)>> ELSE <<Num(n)>>
        \* "{start}" or "{start}-{end}"
        FormatRange(r) ==
            IF r[1] = r[2] THEN FormatI32(r[1]) ELSE FormatI32(r[1]) \o <<Dash>> \o FormatI32(r[2])
        \* str::parse::<i32>().ok()
        ParseI32(toks) ==
            IF Len(toks) = 1 /\ ~toks[1].dash THEN Some(toks[1].digits)
            ELSE IF Len(toks) = 2 /\ toks[1].dash /\ ~toks[2].dash THEN Some(0 - toks[2].digits)
            ELSE None
        \* seg.split_once('-') and the parse of its sides
        LexSegment(toks, junk) ==
            LET dashes == {i \in 1..Len(toks) : toks[i].dash}
                first == CHOOSE i \in dashes : \A j \in dashes : i <= j
            IN IF dashes = {}
               THEN Seg(FALSE, IF junk THEN None ELSE ParseI32(toks), None)
               ELSE Seg(TRUE,
                        IF junk THEN (IF first = 1 THEN Some(1) ELSE None)
                        ELSE ParseI32(SubSeq(toks, 1, first - 1)),
                        ParseI32(SubSeq(toks, first + 1, Len(toks))))
        RECURSIVE Show(_)
        Show(toks) ==
            IF toks = <<>> THEN ""
            ELSE (IF Head(toks).dash THEN "-" ELSE ToString(Head(toks).digits)) \o Show(Tail(toks))
        RECURSIVE Join(_)
        Join(rs) ==
            IF rs = <<>> THEN ""
            ELSE Show(FormatRange(Head(rs))) \o (IF Len(rs) > 1 THEN "," ELSE "") \o Join(Tail(rs))
        words == Text(session_id).words
        text == session_id \o " " \o Join(merged)
    IN IF words = <<>> THEN Line(TRUE, "word", text, Join(merged), <<>>, None)
       ELSE Line(TRUE, "ranges", text, words[1],
                 [i \in 1..Len(merged) |->
                     LexSegment(FormatRange(merged[i]), i = 1 /\ Len(words) > 1)],
                 None)

\* line 236 read back by lines 112-136
LexPathLine(path) ==
    IF Text(path).words = <<>> THEN BlankLine
    ELSE IF Text(path).trim = "---" THEN SepLine(Text(path).starts_with_blank)
    ELSE PathLine(Text(path).starts_with_blank, Text(path).trim)

\* build_sources_payload, as the decoder reads it back: the map is written
\* under "prompts", an alias of "sources".
build_sources_payload(sources) ==
    [id \in DOMAIN sources |->
        NoteSourcePayload(
            Some(NoteAgentId(sources[id].tool, OrElse(sources[id].conversation_id, Some(id)),
                             sources[id].model)),
            sources[id].checkpoint_kind, None)]

\* Variant: the ranges of a file are written as given, unmerged.
BuildUnmerged(commit_sha, files, sources, rewrite_key, rewrite_algorithm) ==
    LET RECURSIVE Blocks(_)
        Blocks(fs) ==
            IF fs = <<>> THEN <<>>
            ELSE <<LexPathLine(Head(fs).path)>>
                 \o [i \in 1..Len(Head(fs).ranges) |->
                        LexSessionLine(Head(fs).ranges[i].session_id,
                                       <<<<Head(fs).ranges[i].start_line,
                                           Head(fs).ranges[i].end_line>>>>)]
                 \o Blocks(Tail(fs))
    IN Blocks(SortBy(LAMBDA f : Text(f.path).rank, files))
       \o <<SepLine(FALSE), JsonLine("{..}", Some(NotePayload(rewrite_key, rewrite_algorithm,
                                                  Some(build_sources_payload(sources)))))>>

\* build_attribution_note: the lines of the note text, as message.lines() and
\* the decoder's trimming and splitting see them.  The blocks of the files are
\* in path order, the lines of a block (lines 238-264) in session id order.
build_attribution_note(commit_sha, files, sources, rewrite_key, rewrite_algorithm) ==
    LET Block(file) ==
            LET ids == {file.ranges[i].session_id : i \in 1..Len(file.ranges)}
                session_ids == SortBy(LAMBDA id : Text(id).rank, CHOOSE q \in Perms(ids) : TRUE)
                ranges_of(id) ==
                    LET mine == SelectSeq(file.ranges, LAMBDA r : r.session_id = id)
                    IN [i \in 1..Len(mine) |-> <<mine[i].start_line, mine[i].end_line>>]
            IN <<LexPathLine(file.path)>>
               \o [i \in 1..Len(session_ids) |->
                      LexSessionLine(session_ids[i], merge_ranges(ranges_of(session_ids[i])))]
        RECURSIVE Blocks(_)
        Blocks(fs) == IF fs = <<>> THEN <<>> ELSE Block(Head(fs)) \o Blocks(Tail(fs))
    IN Blocks(SortBy(LAMBDA f : Text(f.path).rank, files))
       \o <<SepLine(FALSE), JsonLine("{..}", Some(NotePayload(rewrite_key, rewrite_algorithm,
                                                  Some(build_sources_payload(sources)))))>>

(***************************************************************************)
(* Line Attribution Store: rows and queries.                               *)
(***************************************************************************)
LineAttribution(repo_id, commit_sha, file_path, start_line, end_line, session_id, author_type, ai_percentage, tool, model) ==
    [repo_id |-> repo_id, commit_sha |-> commit_sha, file_path |-> file_path,
     start_line |-> start_line, end_line |-> end_line, session_id |-> session_id,
     author_type |-> author_type, ai_percentage |-> ai_percentage,
     tool |-> tool, model |-> model]

\* SELECT ... FROM line_attributions WHERE repo_id = ? AND commit_sha = ?
RowsOf(table, repo_id, commit_sha) ==
    [r \in {x \in DOMAIN table : x.repo_id = repo_id /\ x.commit_sha = commit_sha} |-> table[r]]

\* Variant: the DELETE is left out.
KeepRows(table, repo_id, commit_sha) == table

\* DELETE FROM line_attributions WHERE repo_id = ? AND commit_sha = ?
DeleteRowsOf(table, repo_id, commit_sha) ==
    [r \in {x \in DOMAIN table : ~(x.repo_id = repo_id /\ x.commit_sha = commit_sha)} |-> table[r]]

InsertRow(table, row) == table (+) SetToBag({row})

\* Variant: the existence check never sees a row.
NeverExists(table, repo_id, commit_sha) == FALSE

line_attributions_exist(table, repo_id, commit_sha) ==
    \E r \in DOMAIN table : r.repo_id = repo_id /\ r.commit_sha = commit_sha

RewriteKeyEntry(rewrite_key, algorithm, updated_at, created_at) ==
    [rewrite_key |-> rewrite_key, algorithm |-> algorithm,
     updated_at |-> updated_at, created_at |-> created_at]

\* Variant: ON CONFLICT DO NOTHING, the first entry of a pair stays.
StoreKeyFirstWins(keys, repo_id, commit_sha, rewrite_key, algorithm, ts) ==
    IF IsNone(rewrite_key) \/ IsSome(keys[<<repo_id, commit_sha>>]) THEN keys
    ELSE [keys EXCEPT ![<<repo_id, commit_sha>>] =
             Some(RewriteKeyEntry(Unwrap(rewrite_key),
                                  Unwrap(OrElse(algorithm, Some(REWRITE_KEY_ALGORITHM))),
                                  ts, ts))]

\* INSERT ... ON CONFLICT(repo_id, commit_sha) DO UPDATE; nothing for a None key.
store_rewrite_key(keys, repo_id, commit_sha, rewrite_key, algorithm, ts) ==
    IF IsNone(rewrite_key) THEN keys
    ELSE LET old == keys[<<repo_id, commit_sha>>] IN
         [keys EXCEPT ![<<repo_id, commit_sha>>] =
             Some(RewriteKeyEntry(Unwrap(rewrite_key),
                                  Unwrap(OrElse(algorithm, Some(REWRITE_KEY_ALGORITHM))),
                                  ts,
                                  IF IsSome(old) THEN Unwrap(old).created_at ELSE ts))]

\* Variant: ORDER BY updated_at ASC, the entry updated longest ago comes first.
FindOldestByRewriteKey(keys, table, repo_id, rewrite_key, exclude_commit) ==
    LET cand == {k \in DOMAIN keys :
                    /\ k[1] = repo_id
                    /\ IsSome(keys[k])
                    /\ Unwrap(keys[k]).rewrite_key = rewrite_key
                    /\ k[2] # exclude_commit
                    /\ line_attributions_exist(table, k[1], k[2])}
    IN {k[2] : k \in {a \in cand : \A b \in cand :
                          Unwrap(keys[a]).updated_at <= Unwrap(keys[b]).updated_at}}

\* The rows the donor query may return: same repo, same key, another sha, with
\* rows; ORDER BY updated_at DESC, created_at DESC LIMIT 1 (ties are unordered).
find_commit_by_rewrite_key(keys, table, repo_id, rewrite_key, exclude_commit) ==
    LET cand == {k \in DOMAIN keys :
                    /\ k[1] = repo_id
                    /\ IsSome(keys[k])
                    /\ Unwrap(keys[k]).rewrite_key = rewrite_key
                    /\ k[2] # exclude_commit
                    /\ line_attributions_exist(table, k[1], k[2])}
        Later(a, b) == \/ Unwrap(keys[a]).updated_at > Unwrap(keys[b]).updated_at
                       \/ /\ Unwrap(keys[a]).updated_at = Unwrap(keys[b]).updated_at
                          /\ Unwrap(keys[a]).created_at > Unwrap(keys[b]).created_at
    IN {k[2] : k \in {a \in cand : \A b \in cand : ~Later(b, a)}}

\* INSERT INTO line_attributions SELECT repo_id, ?, ... WHERE commit_sha = source
CopiedRows(table, repo_id, source_commit, target_commit) ==
    LET src == RowsOf(table, repo_id, source_commit) IN
    [r \in {[x EXCEPT !.commit_sha = target_commit] : x \in DOMAIN src}
        |-> src[[r EXCEPT !.commit_sha = source_commit]]]

\* Variant: source and target are bound the wrong way round.
CopySwapped(table, repo_id, source_commit, target_commit) ==
    table (+) CopiedRows(table, repo_id, target_commit, source_commit)

copy_line_attributions(table, repo_id, source_commit, target_commit) ==
    table (+) CopiedRows(table, repo_id, source_commit, target_commit)

(***************************************************************************)
(* Source Lens / Reconciler, and the stats aggregated from it.             *)
(***************************************************************************)
LineMeta(author_type, session_id, ai_percentage, tool, model, trace_available) ==
    [author_type |-> author_type, session_id |-> session_id,
     ai_percentage |-> ai_percentage, tool |-> tool, model |-> model,
     trace_available |-> trace_available]

DefaultLineMeta == LineMeta("human", None, None, None, None, FALSE)

\* Variant: rows of distinct sessions do not mix when their types agree.
ApplyByTypeOnly(meta, attr) ==
    LET incoming_kind == IF attr.author_type = "" THEN "human" ELSE attr.author_type
        should_mix == meta.author_type # incoming_kind
    IN IF meta.author_type = "human" THEN
           LineMeta(incoming_kind, attr.session_id, attr.ai_percentage, attr.tool,
                    attr.model, attr.trace_available > 0)
       ELSE LineMeta(
               IF should_mix THEN "mixed" ELSE meta.author_type,
               OrElse(meta.session_id, attr.session_id),
               IF should_mix THEN Some(50)
               ELSE IF incoming_kind = "mixed" /\ IsSome(attr.ai_percentage)
                    THEN attr.ai_percentage ELSE meta.ai_percentage,
               OrElse(meta.tool, attr.tool),
               OrElse(meta.model, attr.model),
               meta.trace_available \/ attr.trace_available > 0)

\* Variant: the fields of the row override those the line already has.
ApplyOverriding(meta, attr) ==
    LET incoming_kind == IF attr.author_type = "" THEN "human" ELSE attr.author_type
        incoming_trace == attr.trace_available > 0
        should_mix == \/ meta.author_type # incoming_kind
                      \/ /\ incoming_kind # "mixed"
                         /\ IsSome(meta.session_id)
                         /\ IsSome(attr.session_id)
                         /\ meta.session_id # attr.session_id
    IN IF meta.author_type = "human" THEN
           LineMeta(incoming_kind, attr.session_id, attr.ai_percentage, attr.tool,
                    attr.model, incoming_trace)
       ELSE LineMeta(
               IF should_mix THEN "mixed" ELSE meta.author_type,
               OrElse(attr.session_id, meta.session_id),
               IF should_mix THEN Some(50)
               ELSE IF incoming_kind = "mixed" /\ IsSome(attr.ai_percentage)
                    THEN attr.ai_percentage ELSE meta.ai_percentage,
               OrElse(attr.tool, meta.tool),
               OrElse(attr.model, meta.model),
               meta.trace_available \/ incoming_trace)

\* Variant: the first source of a line keeps it, whatever comes after.
ApplyFirstSource(meta, attr) ==
    LET incoming_kind == IF attr.author_type = "" THEN "human" ELSE attr.author_type
        as_u8 == IF IsSome(attr.ai_percentage) THEN Some(Unwrap(attr.ai_percentage) % 256)
                 ELSE None
    IN IF meta.author_type = "human" THEN
           LineMeta(incoming_kind, attr.session_id, as_u8, attr.tool, attr.model,
                    attr.trace_available > 0)
       ELSE meta

apply_line_attr(meta, attr) ==
    LET incoming_kind == IF attr.author_type = "" THEN "human" ELSE attr.author_type
        incoming_trace == attr.trace_available > 0
        \* attr.ai_percentage.map(|v| v as u8)
        as_u8 == IF IsSome(attr.ai_percentage) THEN Some(Unwrap(attr.ai_percentage) % 256)
                 ELSE None
        should_mix == \/ meta.author_type # incoming_kind
                      \/ /\ incoming_kind # "mixed"
                         /\ IsSome(meta.session_id)
                         /\ IsSome(attr.session_id)
                         /\ meta.session_id # attr.session_id
    IN IF meta.author_type = "human" THEN
           LineMeta(incoming_kind, attr.session_id, as_u8, attr.tool, attr.model, incoming_trace)
       ELSE LineMeta(
               IF should_mix THEN "mixed" ELSE meta.author_type,
               OrElse(meta.session_id, attr.session_id),
               IF should_mix THEN Some(50)
               ELSE IF incoming_kind = "mixed" /\ IsSome(attr.ai_percentage)
                    THEN as_u8 ELSE meta.ai_percentage,
               OrElse(meta.tool, attr.tool),
               OrElse(meta.model, attr.model),
               meta.trace_available \/ incoming_trace)

RECURSIVE build_line_meta_from(_, _, _)
build_line_meta_from(lines, total_lines, attrs) ==
    IF attrs = <<>> THEN lines
    ELSE LET attr == Head(attrs)
             start == Max(attr.start_line, 1)
             end == Max(attr.end_line, start)
         IN build_line_meta_from(
                [i \in 1..total_lines |->
                    IF start <= i /\ i <= end THEN apply_line_attr(lines[i], attr) ELSE lines[i]],
                total_lines, Tail(attrs))

\* Variant: lines past the end of the file get a verdict as well.
BuildLineMetaPastEnd(total_lines, attrs) ==
    LET RECURSIVE Last(_)
        Last(rest) == IF rest = <<>> THEN total_lines ELSE Max(Head(rest).end_line, Last(Tail(rest)))
    IN build_line_meta_from([i \in 1..Last(attrs) |-> DefaultLineMeta], Last(attrs), attrs)

build_line_meta(total_lines, attrs) ==
    build_line_meta_from([i \in 1..total_lines |-> DefaultLineMeta], total_lines, attrs)

\* The orders in which a query with ORDER BY start_line may return a bag of rows.
RECURSIVE RowOrders(_)
RowOrders(rows) ==
    IF DOMAIN rows = {} THEN {<<>>}
    ELSE LET first == {r \in DOMAIN rows : \A q \in DOMAIN rows : r.start_line <= q.start_line}
         IN UNION {{<<r>> \o rest : rest \in RowOrders(rows (-) SetToBag({r}))} : r \in first}

\* A u32 as two 16-bit limbs <<high, low>>.
U32(n) == <<n \div 65536, n % 65536>>

SourceLensPage(lines, total_lines, has_more) ==
    [result |-> "ok", lines |-> lines, total_lines |-> total_lines, has_more |-> has_more]

\* get_file_source_lens, lines 39-87, for a file of file_lines lines and its
\* rows as fetched.  overflow_checks tells the build: with them the addition
\* in line 60 panics on overflow, without them it wraps; the slice in line
\* 61 panics when its start is past its end.
source_lens_page(file_lines, attributions, offset, limit, overflow_checks) ==
    LET line_meta == build_line_meta(file_lines, attributions)
        \* offset + limit in u32: the wrapped sum, and whether it overflowed
        low == offset[2] + limit[2]
        high == offset[1] + limit[1] + low \div 65536
        sum == [value |-> <<high % 65536, low % 65536>>, overflow |-> high >= 65536]
        \* a u32 widened to usize, cut off at the length (below 65536)
        U32Min(a, len) == IF a[1] > 0 \/ a[2] > len THEN len ELSE a[2]
        start == U32Min(offset, file_lines)
        end == sum.value
        stop == U32Min(end, file_lines)
    IN IF file_lines = 0 THEN SourceLensPage(<<>>, 0, FALSE)
       ELSE IF start >= file_lines THEN SourceLensPage(<<>>, file_lines, FALSE)
       ELSE IF sum.overflow /\ overflow_checks THEN [result |-> "panic"]
       ELSE IF start > stop THEN [result |-> "panic"]
       ELSE SourceLensPage(
                [idx \in 1..(stop - start) |->
                    [line_number |-> start + idx, meta |-> line_meta[start + idx]]],
                file_lines, end[1] = 0 /\ end[2] < file_lines)

\* Variant: collaborative lines do not count towards the AI share.
StatsWithoutCollaborative(human_lines, ai_agent_lines, ai_assist_lines, collaborative_lines) ==
    LET total == human_lines + ai_agent_lines + ai_assist_lines + collaborative_lines
        ai_total == ai_agent_lines + ai_assist_lines
    IN [human_lines |-> human_lines, ai_agent_lines |-> ai_agent_lines,
        ai_assist_lines |-> ai_assist_lines, collaborative_lines |-> collaborative_lines,
        total_lines |-> total,
        ai_percentage |-> IF total > 0 THEN <<ai_total * 100, total>> ELSE <<0, 1>>]

ContributionStats(human_lines, ai_agent_lines, ai_assist_lines, collaborative_lines) ==
    LET total == human_lines + ai_agent_lines + ai_assist_lines + collaborative_lines
        ai_total == ai_agent_lines + ai_assist_lines + collaborative_lines
    IN [human_lines |-> human_lines, ai_agent_lines |-> ai_agent_lines,
        ai_assist_lines |-> ai_assist_lines, collaborative_lines |-> collaborative_lines,
        total_lines |-> total,
        \* (ai_total / total_lines) * 100.0, kept as an exact fraction
        ai_percentage |-> IF total > 0 THEN <<ai_total * 100, total>> ELSE <<0, 1>>]

CountOf(metas, total_lines, types) == Cardinality({i \in 1..total_lines : metas[i].author_type \in types})

\* Per-file line counts <<human, ai_agent, ai_tab, mixed>> for one row order.
FileCounts(total_lines, attrs) ==
    LET metas == build_line_meta(total_lines, attrs)
        known == {"ai_agent", "ai_tab", "mixed"}
    IN << Cardinality({i \in 1..total_lines : metas[i].author_type \notin known}),
          CountOf(metas, total_lines, {"ai_agent"}),
          CountOf(metas, total_lines, {"ai_tab"}),
          CountOf(metas, total_lines, {"mixed"}) >>

RECURSIVE CountsOver(_, _, _)
CountsOver(rows, commit_sha, files) ==
    IF files = {} THEN {<<0, 0, 0, 0>>}
    ELSE LET f == CHOOSE x \in files : TRUE
             n == FileLines(commit_sha, f)
             of_file == [r \in {x \in DOMAIN rows : x.file_path = f} |-> rows[r]]
             mine == IF n = 0 THEN {<<0, 0, 0, 0>>}
                     ELSE {FileCounts(n, [i \in 1..Len(o) |->
                                            [start_line |-> o[i].start_line,
                                             end_line |-> o[i].end_line,
                                             session_id |-> o[i].session_id,
                                             author_type |-> o[i].author_type,
                                             ai_percentage |-> o[i].ai_percentage,
                                             tool |-> o[i].tool, model |-> o[i].model,
                                             trace_available |-> 0]]) : o \in RowOrders(of_file)}
         IN {<<a[1] + b[1], a[2] + b[2], a[3] + b[3], a[4] + b[4]>> :
                a \in mine, b \in CountsOver(rows, commit_sha, files \ {f})}

\* The results compute_contribution_from_attributions may return: None without
\* rows, else the stats of the reconciled lines, for every order of tied rows.
compute_contribution_from_attributions(table, repo_id, commit_sha) ==
    LET rows == RowsOf(table, repo_id, commit_sha) IN
    IF DOMAIN rows = {} THEN {None}
    ELSE {Some(ContributionStats(c[1], c[2], c[3], c[4])) :
             c \in CountsOver(rows, commit_sha, {r.file_path : r \in DOMAIN rows})}

\* session_stats::store_contribution_stats: upsert of the cached stats row.
store_contribution_stats(cache, repo_id, commit_sha, stats) ==
    [cache EXCEPT ![<<repo_id, commit_sha>>] = Some(stats)]

(***************************************************************************)
(* Coverage Aggregator.                                                    *)
(***************************************************************************)
\* collect_changed_ranges_by_file: diff.foreach hands the line callback the
\* content lines only; a path gets an entry when a line of it is seen.  The
\* callback is that of the single-file extractor, but any origin other than
\* '+' and '-' clears saw_deletion.
RangesByFile(diff_lines) ==
    LET seen == SelectSeq(diff_lines, LAMBDA l : l.origin \notin {"F", "H"})
        Callback(st, line) ==
            IF line.origin \in {"+", "-"} THEN RangeLine(st, line)
            ELSE [RangeLine(st, line) EXCEPT !.saw_deletion = FALSE]
        RECURSIVE Fold(_, _)
        Fold(st, lines) ==
            IF lines = <<>> THEN st ELSE Fold(Callback(st, Head(lines)), Tail(lines))
    IN [path \in {l.path : l \in Range(seen)} |->
           PushRun(Fold(RangeState0, SelectSeq(seen, LAMBDA l : l.path = path)))]

collect_changed_ranges_by_file(commit_sha) == RangesByFile(CommitDiff(commit_sha))

\* coverage.rs merge_ranges
coverage_merge_ranges(ranges) ==
    LET RECURSIVE Fold(_, _)
        Fold(merged, rest) ==
            IF rest = <<>> THEN merged
            ELSE LET start == Head(rest)[1]
                     normalized_end == Max(Head(rest)[2], start)
                     last == merged[Len(merged)]
                 IN IF merged # <<>> /\ start <= last[2] + 1
                    THEN Fold([merged EXCEPT ![Len(merged)] =
                                  <<last[1], Max(last[2], normalized_end)>>], Tail(rest))
                    ELSE Fold(Append(merged, <<start, normalized_end>>), Tail(rest))
    IN Fold(<<>>, SortBy(LAMBDA r : r[1], ranges))

RECURSIVE sum_ranges(_)
sum_ranges(ranges) ==
    IF ranges = <<>> THEN 0
    ELSE Max(Head(ranges)[2] - Head(ranges)[1] + 1, 0) + sum_ranges(Tail(ranges))

\* Variant: every attributed range is counted in full.
CountAttributed(changed, attributed) == sum_ranges(attributed)

\* count_intersection: the while loop, from positions i and j (1-based)
count_intersection(changed, attributed) ==
    LET RECURSIVE From(_, _)
        From(i, j) ==
            IF ~(i <= Len(changed) /\ j <= Len(attributed)) THEN 0
            ELSE LET c_start == changed[i][1]
                     c_end == changed[i][2]
                     a_start == attributed[j][1]
                     a_end == attributed[j][2]
                     start == Max(c_start, a_start)
                     end == IF c_end <= a_end THEN c_end ELSE a_end
                 IN IF c_end < a_start THEN From(i + 1, j)
                    ELSE IF a_end < c_start THEN From(i, j + 1)
                    ELSE (IF end >= start THEN end - start + 1 ELSE 0)
                         + (IF c_end < a_end THEN From(i + 1, j) ELSE From(i, j + 1))
    IN From(1, 1)

\* coverage_percent = attributed / total * 100.0, kept as an exact fraction
AttributionCoverageSummary(total_changed_lines, attributed_lines) ==
    [total_changed_lines |-> total_changed_lines, attributed_lines |-> attributed_lines,
     coverage_percent |-> <<attributed_lines * 100, total_changed_lines>>]

\* compute_attribution_coverage, once the repository is open and the rows are
\* fetched: None without rows or without changed lines, else the summary.
compute_attribution_coverage(table, repo_id, commit_sha) ==
    LET rows == RowsOf(table, repo_id, commit_sha)
        by_file(f) ==
            LET o == CHOOSE q \in RowOrders([r \in {x \in DOMAIN rows : x.file_path = f} |-> rows[r]]) : TRUE
            IN [i \in 1..Len(o) |-> <<o[i].start_line, o[i].end_line>>]
        changed_by_file == collect_changed_ranges_by_file(commit_sha)
        changed(f) == coverage_merge_ranges(
                          [i \in 1..Len(changed_by_file[f]) |->
                              <<changed_by_file[f][i].start_line, changed_by_file[f][i].end_line>>])
        counted == {f \in DOMAIN changed_by_file : changed_by_file[f] # <<>>}
        RECURSIVE Total(_)
        Total(files) ==
            IF files = {} THEN <<0, 0>>
            ELSE LET f == CHOOSE x \in files : TRUE
                     t == Total(files \ {f})
                 IN << t[1] + sum_ranges(changed(f)),
                       t[2] + (IF by_file(f) # <<>>
                               THEN count_intersection(changed(f), coverage_merge_ranges(by_file(f)))
                               ELSE 0) >>
        totals == Total(counted)
    IN IF DOMAIN rows = {} THEN None
       ELSE IF totals[1] = 0 THEN None
       ELSE Some(AttributionCoverageSummary(totals[1], totals[2]))

(***************************************************************************)
(* Call frames.  pc names the suspension point the handler is at; failed   *)
(* collects the points at which a store query or repository read of this  *)
(* call failed; pre is the store as the call found it; caller is the       *)
(* handler a nested call returns to, with that handler's own locals.       *)
(***************************************************************************)
TaskIds == {1, 2}

\* No pure function is under examination.
NoProbe == [op |-> "none"]

IdleFrame ==
    [op |-> "idle", pc |-> "idle", repo_id |-> 0, commit_sha |-> "",
     result |-> "none", outcome |-> "", sessions |-> <<>>, files |-> <<>>,
     pending |-> <<>>, source_commit |-> None, rewrite_key |-> None,
     note |-> None, note_ref |-> None,
     parsed |-> ParsedAttributionNote(<<>>, EmptySources, None, None),
     stats |-> None, imported_ranges |-> 0, imported_sessions |-> {},
     failed |-> {}, pre |-> None, prev |-> None, caller |-> None, summary |-> None,
     repo_open |-> FALSE]

Snapshot == [rows |-> line_attributions, keys |-> commit_rewrite_keys]

Running(fr) == fr.pc \notin {"idle", "done"}

\* The call returns: to the user, or into the handler that awaits it. The
\* locals of the call, a repository handle among them, are dropped.
Finish(fr, result, outcome) ==
    [fr EXCEPT !.pc = IF IsSome(fr.caller) THEN "returned" ELSE "done",
               !.result = result, !.outcome = outcome, !.repo_open = FALSE]

Failed(fr, point) == [fr EXCEPT !.failed = @ \cup {point}]

\* Whether the next store query or repository read may fail.
FaultChoice == IF faults < MaxFaults THEN {FALSE, TRUE} ELSE {FALSE}

KeyOutcomes == IF faults < MaxFaults THEN {"ok", "err", "nokey"} ELSE {"ok"}

\* Callers either run one call at a time, or serialize the calls of one
\* (repo, commit), or start calls freely.
MayStart(t, key) ==
    /\ ~Running(tasks[t])
    /\ calls < MaxCalls
    /\ discipline = "sequential" => \A u \in TaskIds : ~Running(tasks[u])
    /\ discipline = "per_key" =>
          \A u \in TaskIds : Running(tasks[u]) => <<tasks[u].repo_id, tasks[u].commit_sha>> # key

(***************************************************************************)
(* ensure_line_attributions_for_commit                                     *)
(***************************************************************************)
StartEnsure(t, key) ==
    /\ MayStart(t, key)
    /\ now' = now + 1
    /\ calls' = calls + 1
    /\ LET old == tasks[t]
           again == old.op = "ensure" /\ old.pc = "done"
                    /\ <<old.repo_id, old.commit_sha>> = key
                    /\ discipline = "sequential"
       IN tasks' = [tasks EXCEPT ![t] =
              [IdleFrame EXCEPT !.op = "ensure", !.pc = "exists",
                                !.repo_id = key[1], !.commit_sha = key[2],
                                !.pre = Some(Snapshot),
                                !.prev = IF again
                                         THEN Some([rows |-> RowsOf(line_attributions, key[1], key[2]),
                                                    failed |-> old.failed])
                                         ELSE None]]
    /\ UNCHANGED <<line_attributions, commit_rewrite_keys, commit_contribution_stats,
                   attribution_note_meta, attribution_prefs, session_links, notes,
                   discipline, faults, probe, runtime, receivers>>

\* line 40: line_attributions_exist(...).await?
EnsureExists(t) ==
    LET fr == tasks[t] IN
    /\ fr.op = "ensure" /\ fr.pc = "exists"
    /\ \E f \in FaultChoice :
        /\ faults' = faults + (IF f THEN 1 ELSE 0)
        /\ tasks' = [tasks EXCEPT ![t] =
              IF f THEN Finish(Failed(fr, "exists"), "err", "")
              ELSE IF line_attributions_exist(line_attributions, fr.repo_id, fr.commit_sha)
                   THEN Finish(fr, "ok", "present")
                   ELSE [fr EXCEPT !.pc = "restore_key"]]
    /\ UNCHANGED <<line_attributions, commit_rewrite_keys, commit_contribution_stats,
                   attribution_note_meta, attribution_prefs, session_links, notes, now,
                   discipline, calls, probe, runtime, receivers>>

\* Variant: the key is computed and returned but never stored.
StoreKeyNoWrite(keys, repo_id, commit_sha, out, ts) ==
    IF out = "err" THEN [result |-> "err", rewrite_key |-> None, keys |-> keys]
    ELSE [result |-> "ok",
          rewrite_key |-> IF out = "nokey" THEN None ELSE Some(compute_rewrite_key(commit_sha)),
          keys |-> keys]

\* store_rewrite_key_for_commit: the repository is opened and the key computed
\* (out = "nokey": compute_rewrite_key(..).ok() is None), then the key is stored.
store_rewrite_key_for_commit(keys, repo_id, commit_sha, out, ts) ==
    IF out = "err" THEN [result |-> "err", rewrite_key |-> None, keys |-> keys]
    ELSE LET rewrite_key == IF out = "nokey" THEN None
                            ELSE Some(compute_rewrite_key(commit_sha))
         IN [result |-> "ok", rewrite_key |-> rewrite_key,
             keys |-> store_rewrite_key(keys, repo_id, commit_sha, rewrite_key,
                                        Some(REWRITE_KEY_ALGORITHM), ts)]

\* lines 44, 152: the first step of try_restore_attributions_via_rewrite_key;
\* the caller takes anything but Ok(true) as "not restored".
EnsureRestoreKey(t) ==
    LET fr == tasks[t] IN
    /\ fr.op = "ensure" /\ fr.pc = "restore_key"
    /\ \E out \in KeyOutcomes :
        LET r == store_rewrite_key_for_commit(commit_rewrite_keys, fr.repo_id,
                                              fr.commit_sha, out, now)
        IN /\ faults' = faults + (IF out = "ok" THEN 0 ELSE 1)
           /\ commit_rewrite_keys' = r.keys
           /\ tasks' = [tasks EXCEPT ![t] =
                 IF r.result = "err" \/ IsNone(r.rewrite_key)
                 THEN [Failed(fr, "restore_key") EXCEPT !.pc = "sessions"]
                 ELSE [fr EXCEPT !.pc = "find", !.rewrite_key = r.rewrite_key]]
    /\ UNCHANGED <<line_attributions, commit_contribution_stats, attribution_note_meta,
                   attribution_prefs, session_links, notes, now, discipline, calls, probe, runtime, receivers>>

\* line 157: find_commit_by_rewrite_key(...).await?
EnsureFind(t) ==
    LET fr == tasks[t]
        found == find_commit_by_rewrite_key(commit_rewrite_keys, line_attributions,
                                            fr.repo_id, Unwrap(fr.rewrite_key), fr.commit_sha)
    IN
    /\ fr.op = "ensure" /\ fr.pc = "find"
    /\ \E f \in FaultChoice :
        /\ faults' = faults + (IF f THEN 1 ELSE 0)
        /\ \E source \in (IF f \/ found = {} THEN {None} ELSE {Some(c) : c \in found}) :
              tasks' = [tasks EXCEPT ![t] =
                 IF f THEN [Failed(fr, "find") EXCEPT !.pc = "sessions"]
                 ELSE IF IsNone(source) THEN [fr EXCEPT !.pc = "sessions"]
                 ELSE [fr EXCEPT !.pc = "copy", !.source_commit = source]]
    /\ UNCHANGED <<line_attributions, commit_rewrite_keys, commit_contribution_stats,
                   attribution_note_meta, attribution_prefs, session_links, notes, now,
                   discipline, calls, probe, runtime, receivers>>

\* lines 162-165: copy_line_attributions(...).await?; copied == 0 is "not restored"
EnsureCopy(t) ==
    LET fr == tasks[t]
        copied == BagCardinality(CopiedRows(line_attributions, fr.repo_id,
                                            Unwrap(fr.source_commit), fr.commit_sha))
    IN
    /\ fr.op = "ensure" /\ fr.pc = "copy"
    /\ \E f \in FaultChoice :
        /\ faults' = faults + (IF f THEN 1 ELSE 0)
        /\ line_attributions' =
              IF f THEN line_attributions
              ELSE copy_line_attributions(line_attributions, fr.repo_id,
                                          Unwrap(fr.source_commit), fr.commit_sha)
        /\ tasks' = [tasks EXCEPT ![t] =
              IF f THEN [Failed(fr, "copy") EXCEPT !.pc = "sessions"]
              ELSE IF copied = 0 THEN [fr EXCEPT !.pc = "sessions"]
              ELSE [fr EXCEPT !.pc = "restore_stats"]]
    /\ UNCHANGED <<commit_rewrite_keys, commit_contribution_stats, attribution_note_meta,
                   attribution_prefs, session_links, notes, now, discipline, calls, probe, runtime, receivers>>

\* line 167: compute_contribution_from_attributions(...).await; only
\* Ok(Some(stats)) is stored, anything else is passed over.
EnsureRestoreStats(t) ==
    LET fr == tasks[t] IN
    /\ fr.op = "ensure" /\ fr.pc = "restore_stats"
    /\ \E f \in FaultChoice :
        /\ faults' = faults + (IF f THEN 1 ELSE 0)
        /\ \E stats \in (IF f THEN {None}
                         ELSE compute_contribution_from_attributions(
                                  line_attributions, fr.repo_id, fr.commit_sha)) :
              tasks' = [tasks EXCEPT ![t] =
                 IF f THEN Finish(Failed(fr, "restore_stats"), "ok", "recovered")
                 ELSE IF IsNone(stats) THEN Finish(fr, "ok", "recovered")
                 ELSE [fr EXCEPT !.pc = "restore_cache", !.stats = stats]]
    /\ UNCHANGED <<line_attributions, commit_rewrite_keys, commit_contribution_stats,
                   attribution_note_meta, attribution_prefs, session_links, notes, now,
                   discipline, calls, probe, runtime, receivers>>

\* line 168: let _ = store_contribution_stats(...).await; then Ok(true)
EnsureRestoreCache(t) ==
    LET fr == tasks[t] IN
    /\ fr.op = "ensure" /\ fr.pc = "restore_cache"
    /\ \E f \in FaultChoice :
        /\ faults' = faults + (IF f THEN 1 ELSE 0)
        /\ commit_contribution_stats' =
              IF f THEN commit_contribution_stats
              ELSE store_contribution_stats(commit_contribution_stats, fr.repo_id,
                                            fr.commit_sha, Unwrap(fr.stats))
        /\ tasks' = [tasks EXCEPT ![t] =
              Finish(IF f THEN Failed(fr, "restore_cache") ELSE fr, "ok", "recovered")]
    /\ UNCHANGED <<line_attributions, commit_rewrite_keys, attribution_note_meta,
                   attribution_prefs, session_links, notes, now, discipline, calls, probe, runtime, receivers>>

\* Variant: the query filters on the commit sha only, not on the repo.
FetchSessionsAnyRepo(links, repo_id, commit_sha) ==
    LET hits == {k \in DOMAIN links : k[2] = commit_sha /\ links[k] # <<>>}
    IN IF hits = {} THEN <<>> ELSE links[CHOOSE k \in hits : TRUE]

\* fetch_sessions_for_commit: the linked sessions, best first.
fetch_sessions_for_commit(links, repo_id, commit_sha) == links[<<repo_id, commit_sha>>]

\* lines 48-51: fetch_sessions_for_commit(...).await?; none linked is Ok(())
EnsureSessions(t) ==
    LET fr == tasks[t]
        linked == fetch_sessions_for_commit(session_links, fr.repo_id, fr.commit_sha)
    IN
    /\ fr.op = "ensure" /\ fr.pc = "sessions"
    /\ \E f \in FaultChoice :
        /\ faults' = faults + (IF f THEN 1 ELSE 0)
        /\ tasks' = [tasks EXCEPT ![t] =
              IF f THEN Finish(Failed(fr, "sessions"), "err", "")
              ELSE IF linked = <<>> THEN Finish(fr, "ok", "absent")
              ELSE [fr EXCEPT !.pc = "files", !.sessions = linked]]
    /\ UNCHANGED <<line_attributions, commit_rewrite_keys, commit_contribution_stats,
                   attribution_note_meta, attribution_prefs, session_links, notes, now,
                   discipline, calls, probe, runtime, receivers>>

\* After the files: the ranges of the next file, or the final key store.
AfterFile(files) == IF files = <<>> THEN "final_key" ELSE "ranges"

\* lines 53-55: fetch_repo_root(...).await?, Repository::open(..)?,
\* list_commit_files(..)? (a HashSet turned into a Vec: any order); `repo`
\* stays in scope to the end of the function.
EnsureFiles(t) ==
    LET fr == tasks[t]
        paths == list_commit_files(fr.commit_sha)
    IN
    /\ fr.op = "ensure" /\ fr.pc = "files"
    /\ \E f \in FaultChoice :
        /\ faults' = faults + (IF f THEN 1 ELSE 0)
        /\ \E commit_files \in (IF f THEN {<<>>} ELSE Perms(paths)) :
              tasks' = [tasks EXCEPT ![t] =
                 IF f THEN Finish(Failed(fr, "files"), "err", "")
                 ELSE [fr EXCEPT !.pc = AfterFile(commit_files), !.files = commit_files,
                                 !.repo_open = TRUE]]
    /\ UNCHANGED <<line_attributions, commit_rewrite_keys, commit_contribution_stats,
                   attribution_note_meta, attribution_prefs, session_links, notes, now,
                   discipline, calls, probe, runtime, receivers>>

\* Variant: the first session is taken in addition to the matching ones.
TargetIndexesWithFirst(linked, file_path) ==
    <<1>> \o SelectSeq([i \in 1..Len(linked) |-> i],
                LAMBDA i : file_path \in parse_session_files(sessions(linked[i]).files))

\* lines 62-71: the sessions a file's rows go to (1-based indexes).
TargetIndexes(linked, file_path) ==
    LET matched == SelectSeq([i \in 1..Len(linked) |-> i],
                       LAMBDA i : file_path \in parse_session_files(sessions(linked[i]).files))
    IN IF matched = <<>> THEN <<1>> ELSE matched

\* Variant: the loop over the selected sessions is left out, each range
\* goes to the first selected session only.
RowsForFirstSession(repo_id, commit_sha, file_path, ranges, linked) ==
    [i \in 1..Len(ranges) |->
        LET id == linked[TargetIndexes(linked, file_path)[1]] IN
        LineAttribution(repo_id, commit_sha, file_path, ranges[i].start_line,
                        ranges[i].end_line, Some(id),
                        IF ranges[i].kind = "Added" THEN "ai_agent" ELSE "mixed",
                        IF ranges[i].kind = "Added" THEN None ELSE Some(50),
                        sessions(id).tool, sessions(id).model)]

\* lines 74-111: the rows inserted for one file, in insertion order.
RECURSIVE RowsForRanges(_, _, _, _, _)
RowsForRanges(repo_id, commit_sha, file_path, ranges, linked) ==
    IF ranges = <<>> THEN <<>>
    ELSE LET range == Head(ranges)
             author_type == IF range.kind = "Added" THEN "ai_agent" ELSE "mixed"
             ai_percentage == IF range.kind = "Added" THEN None ELSE Some(50)
             target_indexes == TargetIndexes(linked, file_path)
         IN [j \in 1..Len(target_indexes) |->
                LET id == linked[target_indexes[j]] IN
                LineAttribution(repo_id, commit_sha, file_path, range.start_line,
                                range.end_line, Some(id), author_type, ai_percentage,
                                sessions(id).tool, sessions(id).model)]
            \o RowsForRanges(repo_id, commit_sha, file_path, Tail(ranges), linked)

\* line 73: collect_changed_ranges(&repo, commit_sha, &file_path)? of the next file
EnsureRanges(t) ==
    LET fr == tasks[t]
        file_path == Head(fr.files)
        rows == RowsForRanges(fr.repo_id, fr.commit_sha, file_path,
                              collect_changed_ranges(fr.commit_sha, file_path), fr.sessions)
    IN
    /\ fr.op = "ensure" /\ fr.pc = "ranges"
    /\ \E f \in FaultChoice :
        /\ faults' = faults + (IF f THEN 1 ELSE 0)
        /\ tasks' = [tasks EXCEPT ![t] =
              IF f THEN Finish(Failed(fr, "ranges"), "err", "")
              ELSE [fr EXCEPT !.files = Tail(fr.files), !.pending = rows,
                              !.pc = IF rows = <<>> THEN AfterFile(Tail(fr.files)) ELSE "insert"]]
    /\ UNCHANGED <<line_attributions, commit_rewrite_keys, commit_contribution_stats,
                   attribution_note_meta, attribution_prefs, session_links, notes, now,
                   discipline, calls, probe, runtime, receivers>>

\* Variant: the result of the INSERT is dropped instead of propagated.
EnsureInsertLenient(t) ==
    LET fr == tasks[t] IN
    /\ fr.op = "ensure" /\ fr.pc = "insert"
    /\ \E f \in FaultChoice :
        /\ faults' = faults + (IF f THEN 1 ELSE 0)
        /\ line_attributions' =
              IF f THEN line_attributions ELSE InsertRow(line_attributions, Head(fr.pending))
        /\ tasks' = [tasks EXCEPT ![t] =
              [(IF f THEN Failed(fr, "insert") ELSE fr)
                  EXCEPT !.pending = Tail(fr.pending),
                         !.pc = IF Tail(fr.pending) = <<>> THEN AfterFile(fr.files)
                                ELSE "insert"]]
    /\ UNCHANGED <<commit_rewrite_keys, commit_contribution_stats, attribution_note_meta,
                   attribution_prefs, session_links, notes, now, discipline, calls, probe, runtime, receivers>>

\* lines 81-110: one INSERT INTO line_attributions ... .execute(db).await?
EnsureInsert(t) ==
    LET fr == tasks[t] IN
    /\ fr.op = "ensure" /\ fr.pc = "insert"
    /\ \E f \in FaultChoice :
        /\ faults' = faults + (IF f THEN 1 ELSE 0)
        /\ line_attributions' =
              IF f THEN line_attributions ELSE InsertRow(line_attributions, Head(fr.pending))
        /\ tasks' = [tasks EXCEPT ![t] =
              IF f THEN Finish(Failed(fr, "insert"), "err", "")
              ELSE [fr EXCEPT !.pending = Tail(fr.pending),
                              !.pc = IF Tail(fr.pending) = <<>> THEN AfterFile(fr.files)
                                     ELSE "insert"]]
    /\ UNCHANGED <<commit_rewrite_keys, commit_contribution_stats, attribution_note_meta,
                   attribution_prefs, session_links, notes, now, discipline, calls, probe, runtime, receivers>>

\* line 115: let _ = store_rewrite_key_for_commit(...).await; then Ok(())
EnsureFinalKey(t) ==
    LET fr == tasks[t] IN
    /\ fr.op = "ensure" /\ fr.pc = "final_key"
    /\ \E out \in KeyOutcomes :
        LET r == store_rewrite_key_for_commit(commit_rewrite_keys, fr.repo_id,
                                              fr.commit_sha, out, now)
        IN /\ faults' = faults + (IF out = "ok" THEN 0 ELSE 1)
           /\ commit_rewrite_keys' = r.keys
           /\ tasks' = [tasks EXCEPT ![t] =
                 Finish(IF out = "ok" THEN fr ELSE Failed(fr, "final_key"), "ok", "computed")]
    /\ UNCHANGED <<line_attributions, commit_contribution_stats, attribution_note_meta,
                   attribution_prefs, session_links, notes, now, discipline, calls, probe, runtime, receivers>>

(***************************************************************************)
(* import_attribution_note_internal                                        *)
(***************************************************************************)
Note(utf8, lines) == [utf8 |-> utf8, lines |-> lines]

\* Variant: only the current ref is looked at.
FindNoteCurrentOnly(refs, repo_id, commit_sha) ==
    IF IsSome(refs[ATTRIBUTION_NOTES_REF][<<repo_id, commit_sha>>])
    THEN Some([note |-> Unwrap(refs[ATTRIBUTION_NOTES_REF][<<repo_id, commit_sha>>]),
               note_ref |-> ATTRIBUTION_NOTES_REF])
    ELSE None

\* lines 120-126: the note under the current ref, else under the legacy ref.
FindNote(refs, repo_id, commit_sha) ==
    IF IsSome(refs[ATTRIBUTION_NOTES_REF][<<repo_id, commit_sha>>])
    THEN Some([note |-> Unwrap(refs[ATTRIBUTION_NOTES_REF][<<repo_id, commit_sha>>]),
               note_ref |-> ATTRIBUTION_NOTES_REF])
    ELSE IF IsSome(refs[LEGACY_ATTRIBUTION_NOTES_REF][<<repo_id, commit_sha>>])
    THEN Some([note |-> Unwrap(refs[LEGACY_ATTRIBUTION_NOTES_REF][<<repo_id, commit_sha>>]),
               note_ref |-> LEGACY_ATTRIBUTION_NOTES_REF])
    ELSE None

StartImport(t, key) ==
    /\ MayStart(t, key)
    /\ now' = now + 1
    /\ calls' = calls + 1
    /\ tasks' = [tasks EXCEPT ![t] =
          [IdleFrame EXCEPT !.op = "import", !.pc = "imp_read",
                            !.repo_id = key[1], !.commit_sha = key[2],
                            !.pre = Some(Snapshot),
                            \* the call comes right after an export of the commit
                            !.prev = IF /\ tasks[t].op = "export"
                                        /\ tasks[t].outcome = "exported"
                                        /\ <<tasks[t].repo_id, tasks[t].commit_sha>> = key
                                     THEN Some([op |-> "export"]) ELSE None]]
    /\ UNCHANGED <<line_attributions, commit_rewrite_keys, commit_contribution_stats,
                   attribution_note_meta, attribution_prefs, session_links, notes,
                   discipline, faults, probe, runtime, receivers>>

\* lines 113-165: fetch_repo_root(...).await?, then the note is looked up, read
\* as text and parsed before the next await.
ImportRead(t) ==
    LET fr == tasks[t]
        found == FindNote(notes, fr.repo_id, fr.commit_sha)
        parsed == parse_attribution_note(Unwrap(found).note.lines)
    IN
    /\ fr.op = "import" /\ fr.pc = "imp_read"
    /\ \E f \in FaultChoice :
        /\ faults' = faults + (IF f THEN 1 ELSE 0)
        /\ tasks' = [tasks EXCEPT ![t] =
              IF f THEN Finish(Failed(fr, "imp_read"), "err", "")
              ELSE IF IsNone(found) THEN [fr EXCEPT !.pc = "imp_clear", !.outcome = "missing"]
              ELSE IF ~Unwrap(found).note.utf8
                   THEN Finish([fr EXCEPT !.note = Some(Unwrap(found).note)], "err", "")
              ELSE IF parsed.files = <<>>
                   THEN [fr EXCEPT !.pc = "imp_clear", !.outcome = "invalid",
                                   !.note = Some(Unwrap(found).note), !.parsed = parsed]
              ELSE [fr EXCEPT !.pc = "imp_meta", !.note = Some(Unwrap(found).note),
                              !.note_ref = Some(Unwrap(found).note_ref), !.parsed = parsed]]
    /\ UNCHANGED <<line_attributions, commit_rewrite_keys, commit_contribution_stats,
                   attribution_note_meta, attribution_prefs, session_links, notes, now,
                   discipline, calls, probe, runtime, receivers>>

\* note_meta.rs: DELETE FROM attribution_note_meta WHERE repo_id = ? AND commit_sha = ?
clear_attribution_note_meta(meta, repo_id, commit_sha) ==
    {m \in meta : ~(m[1] = repo_id /\ m[2] = commit_sha)}

\* note_meta.rs: INSERT ... ON CONFLICT(repo_id, commit_sha, note_ref) DO UPDATE
upsert_attribution_note_meta(meta, repo_id, commit_sha, note_ref) ==
    meta \cup {<<repo_id, commit_sha, note_ref>>}

\* lines 148, 158: let _ = clear_attribution_note_meta(...).await; Ok(missing | invalid)
ImportClear(t) ==
    LET fr == tasks[t] IN
    /\ fr.op = "import" /\ fr.pc = "imp_clear"
    /\ \E f \in FaultChoice :
        /\ faults' = faults + (IF f THEN 1 ELSE 0)
        /\ attribution_note_meta' =
              IF f THEN attribution_note_meta
              ELSE clear_attribution_note_meta(attribution_note_meta, fr.repo_id, fr.commit_sha)
        /\ tasks' = [tasks EXCEPT ![t] =
              Finish(IF f THEN Failed(fr, "imp_clear") ELSE fr, "ok", fr.outcome)]
    /\ UNCHANGED <<line_attributions, commit_rewrite_keys, commit_contribution_stats,
                   attribution_prefs, session_links, notes, now, discipline, calls, probe, runtime, receivers>>

\* lines 170-183: upsert_attribution_note_meta(...).await?
ImportMeta(t) ==
    LET fr == tasks[t] IN
    /\ fr.op = "import" /\ fr.pc = "imp_meta"
    /\ \E f \in FaultChoice :
        /\ faults' = faults + (IF f THEN 1 ELSE 0)
        /\ attribution_note_meta' =
              IF f THEN attribution_note_meta
              ELSE upsert_attribution_note_meta(attribution_note_meta, fr.repo_id,
                                                fr.commit_sha, Unwrap(fr.note_ref))
        /\ tasks' = [tasks EXCEPT ![t] =
              IF f THEN Finish(Failed(fr, "imp_meta"), "err", "")
              ELSE [fr EXCEPT !.pc = "imp_prefs"]]
    /\ UNCHANGED <<line_attributions, commit_rewrite_keys, commit_contribution_stats,
                   attribution_prefs, session_links, notes, now, discipline, calls, probe, runtime, receivers>>

\* lines 185-190: fetch_or_create_prefs(...).await? creates the repo's row with
\* cache_prompt_metadata off; the parser yields no prompts, so nothing is cached.
ImportPrefs(t) ==
    LET fr == tasks[t] IN
    /\ fr.op = "import" /\ fr.pc = "imp_prefs"
    /\ \E f \in FaultChoice :
        /\ faults' = faults + (IF f THEN 1 ELSE 0)
        /\ attribution_prefs' =
              IF f THEN attribution_prefs ELSE attribution_prefs \cup {fr.repo_id}
        /\ tasks' = [tasks EXCEPT ![t] =
              IF f THEN Finish(Failed(fr, "imp_prefs"), "err", "")
              ELSE [fr EXCEPT !.pc = "imp_mark"]]
    /\ UNCHANGED <<line_attributions, commit_rewrite_keys, commit_contribution_stats,
                   attribution_note_meta, session_links, notes, now, discipline, calls, probe, runtime, receivers>>

\* line 192: let _ = mark_prompt_metadata_cached(.., false).await (the flag of
\* the row just upserted with metadata_cached = false)
ImportMark(t) ==
    LET fr == tasks[t] IN
    /\ fr.op = "import" /\ fr.pc = "imp_mark"
    /\ \E f \in FaultChoice :
        /\ faults' = faults + (IF f THEN 1 ELSE 0)
        /\ tasks' = [tasks EXCEPT ![t] =
              [(IF f THEN Failed(fr, "imp_mark") ELSE fr) EXCEPT !.pc = "imp_delete"]]
    /\ UNCHANGED <<line_attributions, commit_rewrite_keys, commit_contribution_stats,
                   attribution_note_meta, attribution_prefs, session_links, notes, now,
                   discipline, calls, probe, runtime, receivers>>

\* The (file, range) pairs of a parsed note in the order the loops visit them.
RECURSIVE NoteRanges(_)
NoteRanges(files) ==
    IF files = <<>> THEN <<>>
    ELSE [i \in 1..Len(Head(files).ranges) |->
             [path |-> Head(files).path, range |-> Head(files).ranges[i]]]
         \o NoteRanges(Tail(files))

\* lines 336-346: DELETE FROM line_attributions WHERE repo_id = ? AND commit_sha = ?
ImportDelete(t) ==
    LET fr == tasks[t]
        todo == NoteRanges(fr.parsed.files)
    IN
    /\ fr.op = "import" /\ fr.pc = "imp_delete"
    /\ \E f \in FaultChoice :
        /\ faults' = faults + (IF f THEN 1 ELSE 0)
        /\ line_attributions' =
              IF f THEN line_attributions
              ELSE DeleteRowsOf(line_attributions, fr.repo_id, fr.commit_sha)
        /\ tasks' = [tasks EXCEPT ![t] =
              IF f THEN Finish(Failed(fr, "imp_delete"), "err", "")
              ELSE [fr EXCEPT !.pending = todo,
                              !.pc = IF todo = <<>> THEN "imp_key" ELSE "imp_insert"]]
    /\ UNCHANGED <<commit_rewrite_keys, commit_contribution_stats, attribution_note_meta,
                   attribution_prefs, session_links, notes, now, discipline, calls, probe, runtime, receivers>>

\* lines 353-357: parsed.sources.get(&range.session_id).cloned().unwrap_or_default()
SourceOf(parsed, session_id) ==
    IF session_id \in DOMAIN parsed.sources THEN parsed.sources[session_id]
    ELSE DefaultSourceMeta

NeedsSessionMeta(meta) ==
    IsNone(meta.tool) \/ IsNone(meta.model) \/ IsNone(meta.conversation_id)

\* lines 359-371: the gaps of the note's metadata are filled from the session,
\* when the lookup answers Ok(Some(session)).
FillSourceMeta(meta, looked_up) ==
    IF NeedsSessionMeta(meta) /\ IsSome(looked_up)
    THEN NoteSourceMeta(OrElse(meta.tool, Unwrap(looked_up).tool),
                        OrElse(meta.model, Unwrap(looked_up).model),
                        meta.checkpoint_kind,
                        OrElse(meta.conversation_id, Unwrap(looked_up).conversation_id))
    ELSE meta

\* lines 373-376
NoteAuthorType(meta) ==
    IF meta.checkpoint_kind \in {Some("ai_tab"), Some("ai_assist")} THEN "ai_tab" ELSE "ai_agent"

\* lines 353-407: the row stored for one range of the note.
NoteRow(repo_id, commit_sha, parsed, item, looked_up) ==
    LET meta == FillSourceMeta(SourceOf(parsed, item.range.session_id), looked_up) IN
    LineAttribution(repo_id, commit_sha, item.path, item.range.start_line,
                    item.range.end_line, Some(item.range.session_id),
                    NoteAuthorType(meta), None, meta.tool, meta.model)

\* What one pass of the loop body may meet: the session lookup failing (passed
\* over), the insert failing (propagated), or neither.
InsertOutcomes(meta) ==
    IF faults < MaxFaults
    THEN {"ok", "insert_err"} \cup (IF NeedsSessionMeta(meta) THEN {"meta_err"} ELSE {})
    ELSE {"ok"}

\* lines 352-411: one pass of the loop over the ranges of the note.
ImportInsert(t) ==
    LET fr == tasks[t]
        item == Head(fr.pending)
        session_id == item.range.session_id
    IN
    /\ fr.op = "import" /\ fr.pc = "imp_insert"
    /\ \E out \in InsertOutcomes(SourceOf(fr.parsed, session_id)) :
        LET looked_up == IF out = "meta_err" THEN None ELSE fetch_session_meta(session_id)
            row == NoteRow(fr.repo_id, fr.commit_sha, fr.parsed, item, looked_up)
        IN
        /\ faults' = faults + (IF out = "ok" THEN 0 ELSE 1)
        /\ line_attributions' =
              IF out = "insert_err" THEN line_attributions
              ELSE InsertRow(line_attributions, row)
        /\ tasks' = [tasks EXCEPT ![t] =
              IF out = "insert_err" THEN Finish(Failed(fr, "imp_insert"), "err", "")
              ELSE [(IF out = "meta_err" THEN Failed(fr, "imp_session") ELSE fr)
                       EXCEPT !.pending = Tail(fr.pending),
                              !.imported_ranges = @ + 1,
                              !.imported_sessions = @ \cup {session_id},
                              !.pc = IF Tail(fr.pending) = <<>> THEN "imp_key"
                                     ELSE "imp_insert"]]
    /\ UNCHANGED <<commit_rewrite_keys, commit_contribution_stats, attribution_note_meta,
                   attribution_prefs, session_links, notes, now, discipline, calls, probe, runtime, receivers>>

\* store_rewrite_key_from_note: the note's key if it carries one, else the key
\* computed from the commit; the algorithm is the note's, else the default.
store_rewrite_key_from_note(keys, repo_id, commit_sha, parsed, out, ts) ==
    LET algorithm == OrElse(parsed.rewrite_algorithm, Some(REWRITE_KEY_ALGORITHM)) IN
    IF out = "err" THEN keys
    ELSE IF IsSome(parsed.rewrite_key)
    THEN store_rewrite_key(keys, repo_id, commit_sha, parsed.rewrite_key, algorithm, ts)
    ELSE store_rewrite_key(keys, repo_id, commit_sha,
                           IF out = "nokey" THEN None ELSE Some(compute_rewrite_key(commit_sha)),
                           algorithm, ts)

\* The ways the key step can go: "nokey" only when the key has to be computed.
NoteKeyOutcomes(parsed) ==
    IF IsSome(parsed.rewrite_key) THEN KeyOutcomes \ {"nokey"} ELSE KeyOutcomes

\* line 197: let _ = store_rewrite_key_from_note(...).await
ImportKey(t) ==
    LET fr == tasks[t] IN
    /\ fr.op = "import" /\ fr.pc = "imp_key"
    /\ \E out \in NoteKeyOutcomes(fr.parsed) :
        /\ faults' = faults + (IF out = "ok" THEN 0 ELSE 1)
        /\ commit_rewrite_keys' =
              store_rewrite_key_from_note(commit_rewrite_keys, fr.repo_id, fr.commit_sha,
                                          fr.parsed, out, now)
        /\ tasks' = [tasks EXCEPT ![t] =
              [(IF out = "ok" THEN fr ELSE Failed(fr, "imp_key")) EXCEPT !.pc = "imp_stats"]]
    /\ UNCHANGED <<line_attributions, commit_contribution_stats, attribution_note_meta,
                   attribution_prefs, session_links, notes, now, discipline, calls, probe, runtime, receivers>>

\* line 199: compute_contribution_from_attributions(...).await
ImportStats(t) ==
    LET fr == tasks[t] IN
    /\ fr.op = "import" /\ fr.pc = "imp_stats"
    /\ \E f \in FaultChoice :
        /\ faults' = faults + (IF f THEN 1 ELSE 0)
        /\ \E stats \in (IF f THEN {None}
                         ELSE compute_contribution_from_attributions(
                                  line_attributions, fr.repo_id, fr.commit_sha)) :
              tasks' = [tasks EXCEPT ![t] =
                 IF f THEN Finish(Failed(fr, "imp_stats"), "ok", "imported")
                 ELSE IF IsNone(stats) THEN Finish(fr, "ok", "imported")
                 ELSE [fr EXCEPT !.pc = "imp_cache", !.stats = stats]]
    /\ UNCHANGED <<line_attributions, commit_rewrite_keys, commit_contribution_stats,
                   attribution_note_meta, attribution_prefs, session_links, notes, now,
                   discipline, calls, probe, runtime, receivers>>

\* lines 200-208: let _ = store_contribution_stats(...).await; Ok(imported)
ImportCache(t) ==
    LET fr == tasks[t] IN
    /\ fr.op = "import" /\ fr.pc = "imp_cache"
    /\ \E f \in FaultChoice :
        /\ faults' = faults + (IF f THEN 1 ELSE 0)
        /\ commit_contribution_stats' =
              IF f THEN commit_contribution_stats
              ELSE store_contribution_stats(commit_contribution_stats, fr.repo_id,
                                            fr.commit_sha, Unwrap(fr.stats))
        /\ tasks' = [tasks EXCEPT ![t] =
              Finish(IF f THEN Failed(fr, "imp_cache") ELSE fr, "ok", "imported")]
    /\ UNCHANGED <<line_attributions, commit_rewrite_keys, attribution_note_meta,
                   attribution_prefs, session_links, notes, now, discipline, calls, probe, runtime, receivers>>

(***************************************************************************)
(* get_file_source_lens                                                    *)
(***************************************************************************)
\* The offsets and limits a page is asked with: around the length of a.py,
\* and the top of u32.
PageArgs == {U32(0), U32(1), U32(3), U32(4), <<65535, 65535>>}

\* line 34: let _ = ensure_line_attributions_for_commit(...).await
StartSourceLens(t, key, file_path, offset, limit, overflow_checks) ==
    /\ MayStart(t, key)
    /\ now' = now + 1
    /\ calls' = calls + 1
    /\ tasks' = [tasks EXCEPT ![t] =
          [IdleFrame EXCEPT !.op = "ensure", !.pc = "exists",
                            !.repo_id = key[1], !.commit_sha = key[2],
                            !.pre = Some(Snapshot),
                            !.caller = Some([op |-> "lens", file_path |-> file_path,
                                             offset |-> offset, limit |-> limit,
                                             overflow_checks |-> overflow_checks])]]
    /\ UNCHANGED <<line_attributions, commit_rewrite_keys, commit_contribution_stats,
                   attribution_note_meta, attribution_prefs, session_links, notes,
                   discipline, faults, probe, runtime, receivers>>

\* lines 36-87: whatever ensure returned, the repository is opened, the file
\* loaded, its rows fetched (ORDER BY start_line) and the page cut out.
SourceLensPageStep(t) ==
    LET fr == tasks[t]
        args == Unwrap(fr.caller)
        table == RowsOf(line_attributions, fr.repo_id, fr.commit_sha)
        of_file == [r \in {x \in DOMAIN table : x.file_path = args.file_path} |-> table[r]]
        file_lines == FileLines(fr.commit_sha, args.file_path)
        done == [IdleFrame EXCEPT !.op = "lens", !.pc = "done", !.repo_id = fr.repo_id,
                                  !.commit_sha = fr.commit_sha, !.failed = fr.failed,
                                  !.pre = fr.pre, !.caller = fr.caller]
    IN
    /\ fr.op = "ensure" /\ fr.pc = "returned"
    /\ args.op = "lens"
    /\ \E f \in FaultChoice, attributions \in RowOrders(of_file) :
        /\ faults' = faults + (IF f THEN 1 ELSE 0)
        /\ tasks' = [tasks EXCEPT ![t] =
              IF f THEN [Failed(done, "lens") EXCEPT !.result = "err"]
              ELSE LET page == source_lens_page(
                                   file_lines,
                                   [i \in 1..Len(attributions) |->
                                       [start_line |-> attributions[i].start_line,
                                        end_line |-> attributions[i].end_line,
                                        session_id |-> attributions[i].session_id,
                                        author_type |-> attributions[i].author_type,
                                        ai_percentage |-> attributions[i].ai_percentage,
                                        tool |-> attributions[i].tool,
                                        model |-> attributions[i].model,
                                        trace_available |->
                                            IF attributions[i].session_id \in
                                                   {Some(id) : id \in SessionIds}
                                            THEN sessions(Unwrap(attributions[i].session_id))
                                                     .trace_available
                                            ELSE 0]],
                                   args.offset, args.limit, args.overflow_checks)
                   IN [done EXCEPT !.result = page.result, !.summary = Some(page)]]
    /\ UNCHANGED <<line_attributions, commit_rewrite_keys, commit_contribution_stats,
                   attribution_note_meta, attribution_prefs, session_links, notes, now,
                   discipline, calls, probe, runtime, receivers>>

(***************************************************************************)
(* get_commit_contribution_stats                                           *)
(***************************************************************************)
\* session_stats::compute_human_contribution: the stats of a commit of which
\* no AI line is known.
compute_human_contribution(total_lines) == ContributionStats(total_lines, 0, 0, 0)

\* line 26: let _ = ensure_line_attributions_for_commit(...).await
StartStats(t, key) ==
    /\ MayStart(t, key)
    /\ now' = now + 1
    /\ calls' = calls + 1
    /\ tasks' = [tasks EXCEPT ![t] =
          [IdleFrame EXCEPT !.op = "ensure", !.pc = "exists",
                            !.repo_id = key[1], !.commit_sha = key[2],
                            !.pre = Some(Snapshot),
                            !.caller = Some([op |-> "stats"])]]
    /\ UNCHANGED <<line_attributions, commit_rewrite_keys, commit_contribution_stats,
                   attribution_note_meta, attribution_prefs, session_links, notes,
                   discipline, faults, probe, runtime, receivers>>

\* Variant: the failure of ensure is handed on (the call of line 26 with `?`).
StatsPropagating(ensure_result, cached, computed, linked) ==
    IF ensure_result = "err" THEN [result |-> "err", branch |-> "ensure", stats |-> None]
    ELSE IF IsSome(cached) THEN [result |-> "ok", branch |-> "cached", stats |-> cached]
    ELSE IF IsSome(computed) THEN [result |-> "ok", branch |-> "rows", stats |-> computed]
    ELSE IF IsNone(linked)
         THEN [result |-> "ok", branch |-> "human", stats |-> Some(compute_human_contribution(0))]
    ELSE [result |-> "ok", branch |-> "session",
          stats |-> Some([session_id |-> Unwrap(linked)])]

\* lines 26-70, from what the calls gave: the result of ensure, the cached
\* stats row (None when absent or unreadable), the stats of the rows (None
\* without rows or on an error) and the linked session (None when
\* fetch_linked_session is an Err).  The stats of a linked session are those
\* of session_stats::compute_session_contribution, known here by the
\* session they are of.
StatsAnswer(ensure_result, cached, computed, linked) ==
    IF IsSome(cached) THEN [result |-> "ok", branch |-> "cached", stats |-> cached]
    ELSE IF IsSome(computed) THEN [result |-> "ok", branch |-> "rows", stats |-> computed]
    ELSE IF IsNone(linked)
         THEN [result |-> "ok", branch |-> "human", stats |-> Some(compute_human_contribution(0))]
    ELSE [result |-> "ok", branch |-> "session",
          stats |-> Some([session_id |-> Unwrap(linked)])]

\* The query of lines 28-70 that fails, if one does.
StatsFaults ==
    IF faults < MaxFaults THEN {"none", "cache", "compute", "link", "store"} ELSE {"none"}

\* lines 28-70: whatever ensure returned, the cache is asked, then the rows,
\* then the linked session; stats of rows or of a session are stored, and a
\* failure of that store is only logged.
StatsStep(t) ==
    LET fr == tasks[t]
        key == <<fr.repo_id, fr.commit_sha>>
        links == session_links[key]
    IN
    /\ fr.op = "ensure" /\ fr.pc = "returned"
    /\ Unwrap(fr.caller).op = "stats"
    /\ \E fault \in StatsFaults,
          from_rows \in compute_contribution_from_attributions(
                            line_attributions, fr.repo_id, fr.commit_sha) :
        LET answer == StatsAnswer(
                          fr.result,
                          IF fault = "cache" THEN None ELSE commit_contribution_stats[key],
                          IF fault = "compute" THEN None ELSE from_rows,
                          IF fault = "link" \/ links = <<>> THEN None ELSE Some(Head(links)))
        IN
        /\ faults' = faults + (IF fault = "none" THEN 0 ELSE 1)
        /\ commit_contribution_stats' =
              IF answer.branch \in {"rows", "session"} /\ fault # "store"
              THEN store_contribution_stats(commit_contribution_stats, fr.repo_id,
                                            fr.commit_sha, Unwrap(answer.stats))
              ELSE commit_contribution_stats
        /\ tasks' = [tasks EXCEPT ![t] =
              [IdleFrame EXCEPT !.op = "stats", !.pc = "done", !.repo_id = fr.repo_id,
                                !.commit_sha = fr.commit_sha, !.failed = fr.failed,
                                !.pre = fr.pre, !.result = answer.result,
                                !.outcome = answer.branch, !.summary = answer.stats,
                                !.caller = Some([op |-> "stats", ensure |-> fr.result])]]
    /\ UNCHANGED <<line_attributions, commit_rewrite_keys, attribution_note_meta,
                   attribution_prefs, session_links, notes, now, discipline, calls, probe, runtime, receivers>>

(***************************************************************************)
(* import_attribution_notes_batch                                          *)
(***************************************************************************)
\* The commits the note commands are asked with: c1 and c3 have, between
\* them, a note under both refs, under the legacy ref only, one that is not
\* text, and none.
CommandCommits == {"c1", "c3"}

\* The commit lists a batch is asked with.
BatchLists ==
    UNION {[1..n -> CommandCommits] : n \in 0..MaxBatch}

AttributionNoteBatchSummary(imported, missing, failed) ==
    [total |-> imported + missing + failed, imported |-> imported,
     missing |-> missing, failed |-> failed]

\* The frame of the import of commit_shas[index], awaited by the batch; log
\* lists the commits whose import has returned, with what it returned.
BatchImportFrame(repo_id, commit_shas, index, imported, missing, failed, log) ==
    [IdleFrame EXCEPT !.op = "import", !.pc = "imp_read",
                      !.repo_id = repo_id, !.commit_sha = commit_shas[index],
                      !.caller = Some([op |-> "batch", commit_shas |-> commit_shas,
                                       index |-> index, imported |-> imported,
                                       missing |-> missing, failed |-> failed,
                                       log |-> log])]

BatchDoneFrame(repo_id, commit_shas, imported, missing, failed, log) ==
    [IdleFrame EXCEPT !.op = "batch", !.pc = "done", !.repo_id = repo_id,
                      !.result = "ok",
                      !.caller = Some([op |-> "batch", commit_shas |-> commit_shas,
                                       index |-> Len(commit_shas), imported |-> imported,
                                       missing |-> missing, failed |-> failed, log |-> log]),
                      !.summary = Some(AttributionNoteBatchSummary(imported, missing, failed))]

\* lines 68-72 and 87-92: the tallies start at zero; an empty list is summed
\* up at once.
StartBatch(t, repo_id, commit_shas) ==
    /\ MayStart(t, <<repo_id, "">>)
    /\ now' = now + 1
    /\ calls' = calls + 1
    /\ tasks' = [tasks EXCEPT ![t] =
          IF commit_shas = <<>> THEN BatchDoneFrame(repo_id, commit_shas, 0, 0, 0, <<>>)
          ELSE BatchImportFrame(repo_id, commit_shas, 1, 0, 0, 0, <<>>)]
    /\ UNCHANGED <<line_attributions, commit_rewrite_keys, commit_contribution_stats,
                   attribution_note_meta, attribution_prefs, session_links, notes,
                   discipline, faults, probe, runtime, receivers>>

\* Variant: the first failing import ends the batch.
BatchTallyAbort(fr) ==
    LET b == Unwrap(fr.caller)
        imported == b.imported + (IF fr.result = "ok" /\ fr.outcome = "imported" THEN 1 ELSE 0)
        missing == b.missing + (IF fr.result = "ok" /\ fr.outcome # "imported" THEN 1 ELSE 0)
        failed == b.failed + (IF fr.result = "err" THEN 1 ELSE 0)
        log == Append(b.log, [commit_sha |-> fr.commit_sha, result |-> fr.result,
                              outcome |-> fr.outcome])
    IN IF b.index < Len(b.commit_shas) /\ fr.result # "err"
       THEN BatchImportFrame(fr.repo_id, b.commit_shas, b.index + 1,
                             imported, missing, failed, log)
       ELSE BatchDoneFrame(fr.repo_id, b.commit_shas, imported, missing, failed, log)

\* lines 73-85: the match on what the import returned, and the next turn of
\* the loop; lines 87-92 after the last one.
BatchTally(fr) ==
    LET b == Unwrap(fr.caller)
        imported == b.imported + (IF fr.result = "ok" /\ fr.outcome = "imported" THEN 1 ELSE 0)
        missing == b.missing + (IF fr.result = "ok" /\ fr.outcome # "imported" THEN 1 ELSE 0)
        failed == b.failed + (IF fr.result = "err" THEN 1 ELSE 0)
        log == Append(b.log, [commit_sha |-> fr.commit_sha, result |-> fr.result,
                              outcome |-> fr.outcome])
    IN IF b.index < Len(b.commit_shas)
       THEN BatchImportFrame(fr.repo_id, b.commit_shas, b.index + 1,
                             imported, missing, failed, log)
       ELSE BatchDoneFrame(fr.repo_id, b.commit_shas, imported, missing, failed, log)

BatchNext(t) ==
    LET fr == tasks[t] IN
    /\ fr.op = "import" /\ fr.pc = "returned"
    /\ Unwrap(fr.caller).op = "batch"
    /\ tasks' = [tasks EXCEPT ![t] = BatchTally(fr)]
    /\ UNCHANGED <<line_attributions, commit_rewrite_keys, commit_contribution_stats,
                   attribution_note_meta, attribution_prefs, session_links, notes, now,
                   discipline, calls, faults, probe, runtime, receivers>>

(***************************************************************************)
(* export_attribution_note                                                 *)
(***************************************************************************)
StartExport(t, key) ==
    /\ MayStart(t, key)
    /\ now' = now + 1
    /\ calls' = calls + 1
    /\ tasks' = [tasks EXCEPT ![t] =
          [IdleFrame EXCEPT !.op = "export", !.pc = "exp_rows",
                            !.repo_id = key[1], !.commit_sha = key[2]]]
    /\ UNCHANGED <<line_attributions, commit_rewrite_keys, commit_contribution_stats,
                   attribution_note_meta, attribution_prefs, session_links, notes,
                   discipline, faults, probe, runtime, receivers>>

\* lines 438-467, over the rows as fetched (ORDER BY file_path, start_line):
\* the files with their ranges, and the sources with what the rows tell.
ExportFiles(rows) ==
    LET with_session == SelectSeq(rows, LAMBDA r : IsSome(r.session_id))
        paths == {with_session[i].file_path : i \in 1..Len(with_session)}
        ranges_of(path) ==
            LET mine == SelectSeq(with_session, LAMBDA r : r.file_path = path)
            IN [i \in 1..Len(mine) |->
                   NoteRange(Unwrap(mine[i].session_id), mine[i].start_line, mine[i].end_line)]
        ordered == SortBy(LAMBDA path : Text(path).rank, CHOOSE q \in Perms(paths) : TRUE)
    IN [i \in 1..Len(ordered) |-> NoteFile(ordered[i], ranges_of(ordered[i]))]

\* Variant: the sources carry no checkpoint kind.
ExportSourcesNoKind(rows) ==
    LET with_session == SelectSeq(rows, LAMBDA r : IsSome(r.session_id))
        ids == {Unwrap(with_session[i].session_id) : i \in 1..Len(with_session)}
    IN [id \in ids |->
           LET mine == SelectSeq(with_session, LAMBDA r : r.session_id = Some(id))
           IN NoteSourceMeta(mine[1].tool, mine[1].model, None, None)]

ExportSourcesOf(rows) ==
    LET with_session == SelectSeq(rows, LAMBDA r : IsSome(r.session_id))
        ids == {Unwrap(with_session[i].session_id) : i \in 1..Len(with_session)}
        RECURSIVE FirstSome(_, _)
        FirstSome(mine, field) ==
            IF mine = <<>> THEN None
            ELSE IF IsSome(Head(mine)[field]) THEN Head(mine)[field]
            ELSE FirstSome(Tail(mine), field)
    IN [id \in ids |->
           LET mine == SelectSeq(with_session, LAMBDA r : r.session_id = Some(id))
           IN NoteSourceMeta(FirstSome(mine, "tool"), FirstSome(mine, "model"),
                             Some(IF mine[1].author_type = "ai_tab" THEN "ai_tab" ELSE "ai_agent"),
                             None)]

\* The orders in which ORDER BY file_path, start_line may return the rows.
ExportOrders(table) ==
    {SortBy(LAMBDA r : Text(r.file_path).rank, o) : o \in RowOrders(table)}

\* lines 426-467
ExportRows(t) ==
    LET fr == tasks[t]
        table == RowsOf(line_attributions, fr.repo_id, fr.commit_sha)
    IN
    /\ fr.op = "export" /\ fr.pc = "exp_rows"
    /\ \E f \in FaultChoice, rows \in ExportOrders(table) :
        /\ faults' = faults + (IF f THEN 1 ELSE 0)
        /\ tasks' = [tasks EXCEPT ![t] =
              IF f THEN Finish(Failed(fr, "exp_rows"), "err", "")
              ELSE IF rows = <<>> THEN Finish(fr, "ok", "empty")
              ELSE LET sources == ExportSourcesOf(rows) IN
                   [fr EXCEPT !.pc = IF DOMAIN sources = {} THEN "exp_root" ELSE "exp_sources",
                              !.files = ExportFiles(rows),
                              !.parsed = ParsedAttributionNote(ExportFiles(rows), sources,
                                                               None, None),
                              !.sessions = SortBy(LAMBDA id : Text(id).rank,
                                                  CHOOSE q \in Perms(DOMAIN sources) : TRUE)]]
    /\ UNCHANGED <<line_attributions, commit_rewrite_keys, commit_contribution_stats,
                   attribution_note_meta, attribution_prefs, session_links, notes, now,
                   discipline, calls, probe, runtime, receivers>>

\* lines 469-481: one turn of the loop over the sources; a lookup that fails
\* leaves the source as it is.
ExportSources(t) ==
    LET fr == tasks[t]
        session_id == Head(fr.sessions)
    IN
    /\ fr.op = "export" /\ fr.pc = "exp_sources"
    /\ \E f \in FaultChoice :
        /\ faults' = faults + (IF f THEN 1 ELSE 0)
        /\ tasks' = [tasks EXCEPT ![t] =
              [fr EXCEPT !.parsed.sources[session_id] =
                             FillSourceMeta(@, IF f THEN None ELSE fetch_session_meta(session_id)),
                         !.sessions = Tail(fr.sessions),
                         !.pc = IF Tail(fr.sessions) = <<>> THEN "exp_root" ELSE "exp_sources"]]
    /\ UNCHANGED <<line_attributions, commit_rewrite_keys, commit_contribution_stats,
                   attribution_note_meta, attribution_prefs, session_links, notes, now,
                   discipline, calls, probe, runtime, receivers>>

\* lines 485-487: fetch_repo_root(...).await?, Repository::open(..)?, and
\* compute_rewrite_key(..).ok()
ExportRoot(t) ==
    LET fr == tasks[t] IN
    /\ fr.op = "export" /\ fr.pc = "exp_root"
    /\ \E out \in KeyOutcomes :
        /\ faults' = faults + (IF out = "ok" THEN 0 ELSE 1)
        /\ tasks' = [tasks EXCEPT ![t] =
              IF out = "err" THEN Finish(Failed(fr, "exp_root"), "err", "")
              ELSE [fr EXCEPT !.pc = "exp_key", !.repo_open = TRUE,
                              !.rewrite_key = IF out = "nokey" THEN None
                                              ELSE Some(compute_rewrite_key(fr.commit_sha))]]
    /\ UNCHANGED <<line_attributions, commit_rewrite_keys, commit_contribution_stats,
                   attribution_note_meta, attribution_prefs, session_links, notes, now,
                   discipline, calls, probe, runtime, receivers>>

\* Variant: the note goes to the legacy ref.
WriteNoteLegacy(refs, repo_id, commit_sha, note) ==
    [refs EXCEPT ![LEGACY_ATTRIBUTION_NOTES_REF][<<repo_id, commit_sha>>] = Some(note)]

\* lines 512-520: repo.note(.., Some(ATTRIBUTION_NOTES_REF), oid, &note_text, true)
WriteNote(refs, repo_id, commit_sha, note) ==
    [refs EXCEPT ![ATTRIBUTION_NOTES_REF][<<repo_id, commit_sha>>] = Some(note)]

\* lines 488-525: let _ = store_rewrite_key(...).await, then the note is
\* built and written; key_stored and note_written tell whether the store and
\* the repository went through with it.
ExportKey(t) ==
    LET fr == tasks[t]
        note_text == build_attribution_note(fr.commit_sha, fr.parsed.files, fr.parsed.sources,
                                            fr.rewrite_key, Some(REWRITE_KEY_ALGORITHM))
    IN
    /\ fr.op = "export" /\ fr.pc = "exp_key"
    /\ \E key_failed \in FaultChoice, note_failed \in FaultChoice :
        /\ faults + (IF key_failed THEN 1 ELSE 0) + (IF note_failed THEN 1 ELSE 0) <= MaxFaults
        /\ faults' = faults + (IF key_failed THEN 1 ELSE 0) + (IF note_failed THEN 1 ELSE 0)
        /\ commit_rewrite_keys' =
              IF key_failed THEN commit_rewrite_keys
              ELSE store_rewrite_key(commit_rewrite_keys, fr.repo_id, fr.commit_sha,
                                     fr.rewrite_key, Some(REWRITE_KEY_ALGORITHM), now)
        /\ notes' = IF note_failed THEN notes
                    ELSE WriteNote(notes, fr.repo_id, fr.commit_sha, Note(TRUE, note_text))
        /\ tasks' = [tasks EXCEPT ![t] =
              IF note_failed THEN Finish(Failed(fr, "exp_note"), "err", "")
              ELSE Finish([fr EXCEPT !.note = Some(Note(TRUE, note_text)),
                                     !.note_ref = Some(ATTRIBUTION_NOTES_REF)],
                          "ok", "exported")]
    /\ UNCHANGED <<line_attributions, commit_contribution_stats, attribution_note_meta,
                   attribution_prefs, session_links, now, discipline, calls, probe, runtime, receivers>>

(***************************************************************************)
(* Inputs: which sessions are linked to which commit, and the notes the    *)
(* repositories carry under the two refs.                                  *)
(***************************************************************************)
NoLinks == [k \in Keys |-> <<>>]

\* The commits of repo 1 are linked to sessions, the commit of repo 2 to none.
Links == [NoLinks EXCEPT ![<<1, "c1">>] = <<"s1", "s2">>, ![<<1, "c2">>] = <<"s3">>,
                         ![<<1, "c3">>] = <<"s2">>]

\* A rewrite key written by another tool.
ForeignKey == Sha256Hex(<<[path |-> "a.py", origin |-> "+", text |-> <<"q">>]>>)

\* Two files, a repeated range, a session the store does not know, and a JSON
\* tail with a key, an algorithm and the metadata of two sessions.
FullNote ==
    Note(TRUE,
      << PathLine(FALSE, "a.py"),
         RangeLineOf(TRUE, "s1 1-2,1-2", "s1",
                     <<Seg(TRUE, Some(1), Some(2)), Seg(TRUE, Some(1), Some(2))>>),
         RangeLineOf(TRUE, "s2 3", "s2", <<Seg(FALSE, Some(3), None)>>),
         BlankLine,
         PathLine(FALSE, "b.py"),
         RangeLineOf(TRUE, "s9 2-x", "s9", <<Seg(TRUE, Some(2), None)>>),
         SepLine(FALSE),
         JsonLine("{..}",
             Some(NotePayload(Some(ForeignKey), Some("git-ai"),
                 Some([id \in {"s1", "s2"} |->
                     IF id = "s1"
                     THEN NoteSourcePayload(
                              Some(NoteAgentId(Some("codex"), Some("conv1"), None)),
                              Some("ai_tab"), Some("gpt"))
                     ELSE NoteSourcePayload(None, None, None)])))) >>)

\* A file section followed by a tail that is no JSON.
BadTailNote ==
    Note(TRUE,
      << PathLine(FALSE, "a.py"),
         RangeLineOf(TRUE, "s2 2-3, x, 0", "s2",
                     <<Seg(TRUE, Some(2), Some(3)), Seg(FALSE, None, None),
                       Seg(FALSE, Some(0), None)>>),
         SepLine(FALSE),
         JsonLine("{oops", None) >>)

\* A file section only, as older tools wrote it.
PlainNote ==
    Note(TRUE,
      << PathLine(FALSE, "b.py"),
         RangeLineOf(TRUE, "s3 1", "s3", <<Seg(FALSE, Some(1), None)>>) >>)

\* Range lines under no file, then a well-formed tail: no file section.
NoFileNote ==
    Note(TRUE,
      << RangeLineOf(TRUE, "s1 1-2", "s1", <<Seg(TRUE, Some(1), Some(2))>>),
         SepLine(FALSE),
         JsonLine("{..}", Some(NotePayload(None, None, None))) >>)

\* A note whose blob is not text.
BinaryNote == Note(FALSE, <<>>)

\* A file whose only range starts at line 0: a file section with no range.
NoRangeNote ==
    Note(TRUE,
      << PathLine(FALSE, "a.py"),
         RangeLineOf(TRUE, "s1 0", "s1", <<Seg(FALSE, Some(0), None)>>) >>)

\* A note that came along from another commit with the same patch: its tail
\* carries the rewrite key of c1.
CarriedNote ==
    Note(TRUE,
      << PathLine(FALSE, "b.py"),
         RangeLineOf(TRUE, "s2 1", "s2", <<Seg(FALSE, Some(1), None)>>),
         SepLine(FALSE),
         JsonLine("{..}", Some(NotePayload(Some(compute_rewrite_key("c1")), None, None))) >>)

NoNotes == [ref \in NoteRefs |-> [k \in Keys |-> None]]

NoteConfigs ==
    { [NoNotes EXCEPT ![ATTRIBUTION_NOTES_REF][<<1, "c1">>] = Some(FullNote),
                      ![LEGACY_ATTRIBUTION_NOTES_REF][<<1, "c1">>] = Some(PlainNote),
                      ![ATTRIBUTION_NOTES_REF][<<1, "c2">>] = Some(NoFileNote),
                      ![LEGACY_ATTRIBUTION_NOTES_REF][<<1, "c3">>] = Some(BadTailNote),
                      ![ATTRIBUTION_NOTES_REF][<<2, "c1">>] = Some(BinaryNote)],
      [NoNotes EXCEPT ![LEGACY_ATTRIBUTION_NOTES_REF][<<1, "c2">>] = Some(PlainNote),
                      ![ATTRIBUTION_NOTES_REF][<<1, "c3">>] = Some(BinaryNote),
                      ![LEGACY_ATTRIBUTION_NOTES_REF][<<2, "c1">>] = Some(NoFileNote)],
      [NoNotes EXCEPT ![ATTRIBUTION_NOTES_REF][<<1, "c1">>] = Some(NoRangeNote),
                      ![ATTRIBUTION_NOTES_REF][<<1, "c3">>] = Some(CarriedNote)] }

(***************************************************************************)
(* Specifications.                                                         *)
(***************************************************************************)
InitStore ==
    /\ line_attributions = EmptyBag
    /\ commit_rewrite_keys = [k \in Keys |-> None]
    /\ commit_contribution_stats = [k \in Keys |-> None]
    /\ attribution_note_meta = {}
    /\ attribution_prefs = {}
    /\ now = 0
    /\ tasks = [t \in TaskIds |-> IdleFrame]
    /\ calls = 0
    /\ runtime = None
    /\ receivers = <<>>

\* One caller issuing ensure and import calls one after the other.
Init ==
    /\ InitStore
    /\ session_links = Links
    /\ notes \in NoteConfigs
    /\ discipline = "sequential"
    /\ faults = 0
    /\ probe = NoProbe

Next ==
    \/ \E key \in Keys : StartEnsure(1, key)
    \/ EnsureExists(1)
    \/ EnsureRestoreKey(1)
    \/ EnsureFind(1)
    \/ EnsureCopy(1)
    \/ EnsureRestoreStats(1)
    \/ EnsureRestoreCache(1)
    \/ EnsureSessions(1)
    \/ EnsureFiles(1)
    \/ EnsureRanges(1)
    \/ EnsureInsert(1)
    \/ EnsureFinalKey(1)
    \/ \E key \in Keys : StartImport(1, key)
    \/ ImportRead(1)
    \/ ImportClear(1)
    \/ ImportMeta(1)
    \/ ImportPrefs(1)
    \/ ImportMark(1)
    \/ ImportDelete(1)
    \/ ImportInsert(1)
    \/ ImportKey(1)
    \/ ImportStats(1)
    \/ ImportCache(1)

Spec == Init /\ [][Next]_vars

\* Two callers issuing ensure calls, either serialized per (repo, commit) or
\* started freely, over a store and a repository that answer every request.
InitConc ==
    /\ InitStore
    /\ session_links = Links
    /\ notes = NoNotes
    /\ discipline \in {"per_key", "none"}
    /\ faults = MaxFaults
    /\ probe = NoProbe

\* The two callers work on the commits of one repository.
ConcKeys == {k \in Keys : k[1] = 1}

NextConc ==
    \/ \E t \in TaskIds, key \in ConcKeys : StartEnsure(t, key)
    \/ \E t \in TaskIds : EnsureExists(t)
    \/ \E t \in TaskIds : EnsureRestoreKey(t)
    \/ \E t \in TaskIds : EnsureFind(t)
    \/ \E t \in TaskIds : EnsureCopy(t)
    \/ \E t \in TaskIds : EnsureRestoreStats(t)
    \/ \E t \in TaskIds : EnsureRestoreCache(t)
    \/ \E t \in TaskIds : EnsureSessions(t)
    \/ \E t \in TaskIds : EnsureFiles(t)
    \/ \E t \in TaskIds : EnsureRanges(t)
    \/ \E t \in TaskIds : EnsureInsert(t)
    \/ \E t \in TaskIds : EnsureFinalKey(t)

SpecConc == InitConc /\ [][NextConc]_vars

\* One caller asking for pages of a.py at c1 and at c2, one after the other.
LensKeys == {<<1, "c1">>, <<1, "c2">>}

NextLens ==
    \/ \E key \in LensKeys, offset \in PageArgs, limit \in PageArgs, overflow_checks \in BOOLEAN :
            StartSourceLens(1, key, "a.py", offset, limit, overflow_checks)
    \/ EnsureExists(1)
    \/ EnsureRestoreKey(1)
    \/ EnsureFind(1)
    \/ EnsureCopy(1)
    \/ EnsureRestoreStats(1)
    \/ EnsureRestoreCache(1)
    \/ EnsureSessions(1)
    \/ EnsureFiles(1)
    \/ EnsureRanges(1)
    \/ EnsureInsert(1)
    \/ EnsureFinalKey(1)
    \/ SourceLensPageStep(1)

SpecLens == Init /\ [][NextLens]_vars

\* One caller asking for the stats of the commits of both repositories, one
\* after the other.
NextStats ==
    \/ \E key \in Keys : StartStats(1, key)
    \/ EnsureExists(1)
    \/ EnsureRestoreKey(1)
    \/ EnsureFind(1)
    \/ EnsureCopy(1)
    \/ EnsureRestoreStats(1)
    \/ EnsureRestoreCache(1)
    \/ EnsureSessions(1)
    \/ EnsureFiles(1)
    \/ EnsureRanges(1)
    \/ EnsureInsert(1)
    \/ EnsureFinalKey(1)
    \/ StatsStep(1)

SpecStats == Init /\ [][NextStats]_vars

\* One caller issuing imports, alone and in batches, and exports on repo 1,
\* one after the other.
CommandKeys == {1} \X CommandCommits

NextCommands ==
    \/ \E key \in CommandKeys : StartImport(1, key)
    \/ \E commit_shas \in BatchLists : StartBatch(1, 1, commit_shas)
    \/ ImportRead(1)
    \/ ImportClear(1)
    \/ ImportMeta(1)
    \/ ImportPrefs(1)
    \/ ImportMark(1)
    \/ ImportDelete(1)
    \/ ImportInsert(1)
    \/ ImportKey(1)
    \/ ImportStats(1)
    \/ ImportCache(1)
    \/ BatchNext(1)
    \/ \E key \in CommandKeys : StartExport(1, key)
    \/ ExportRows(1)
    \/ ExportSources(1)
    \/ ExportRoot(1)
    \/ ExportKey(1)

SpecCommands == Init /\ [][NextCommands]_vars

\* One caller issuing ensure, import and export calls on the commits of repo
\* 1, one after the other: the three writers of the rewrite-key table.
NextKeys ==
    \/ \E key \in ConcKeys : StartEnsure(1, key)
    \/ EnsureExists(1)
    \/ EnsureRestoreKey(1)
    \/ EnsureFind(1)
    \/ EnsureCopy(1)
    \/ EnsureRestoreStats(1)
    \/ EnsureRestoreCache(1)
    \/ EnsureSessions(1)
    \/ EnsureFiles(1)
    \/ EnsureRanges(1)
    \/ EnsureInsert(1)
    \/ EnsureFinalKey(1)
    \/ \E key \in ConcKeys : StartImport(1, key)
    \/ ImportRead(1)
    \/ ImportClear(1)
    \/ ImportMeta(1)
    \/ ImportPrefs(1)
    \/ ImportMark(1)
    \/ ImportDelete(1)
    \/ ImportInsert(1)
    \/ ImportKey(1)
    \/ ImportStats(1)
    \/ ImportCache(1)
    \/ \E key \in ConcKeys : StartExport(1, key)
    \/ ExportRows(1)
    \/ ExportSources(1)
    \/ ExportRoot(1)
    \/ ExportKey(1)

SpecKeys == Init /\ [][NextKeys]_vars

(***************************************************************************)
(* The pure functions of the engine, applied to inputs built one element   *)
(* at a time.  The store and the repository stay as constructed.           *)
(***************************************************************************)
storeVars == <<line_attributions, commit_rewrite_keys, commit_contribution_stats,
               attribution_note_meta, attribution_prefs, session_links, notes, now,
               tasks, discipline, calls, faults, runtime, receivers>>

\* Line ranges given to the two merge_ranges, inverted ones included.
MergeInputs == (1..4) \X (1..4)

\* The commits coverage is computed for; c0 only deletes lines.
ProbeCommits == {"c1", "c3", "c0"}

MergeProbe == [op |-> "merge", ranges |-> <<>>]

\* Paths and ranges given to the note codec: well-formed ones, and a blank
\* path, an indented path, the separator as a path, an inverted range, start
\* lines below 1, a session id of two words and an empty one.
CodecPaths == {"a.py", "b.py", "", " pad.py", "---"}
CodecRanges ==
    {NoteRange("s1", 1, 2), NoteRange("s1", 3, 4), NoteRange("s2", 2, 3),
     NoteRange("s1", 4, 1), NoteRange("s1", 0, 2), NoteRange("s1", -1, 1),
     NoteRange("s 1", 1, 2), NoteRange("", 1, 2)}

CodecProbe == [op |-> "note", files |-> <<>>]

\* Rows given to the reconciler.  The first six are rows the engine writes
\* (ai_agent and ai_tab without a percentage, mixed with 50); the others have
\* a range that is inverted, starts below 1 or ends beyond every file, an
\* unknown session, an empty type or a percentage out of the u8 range.
LensRow(start_line, end_line, session_id, author_type, ai_percentage) ==
    [start_line |-> start_line, end_line |-> end_line, session_id |-> session_id,
     author_type |-> author_type, ai_percentage |-> ai_percentage,
     tool |-> Some("codex"), model |-> None, trace_available |-> 0]

EngineRows ==
    {LensRow(1, 3, Some("s1"), "ai_agent", None), LensRow(2, 3, Some("s1"), "ai_agent", None),
     LensRow(2, 4, Some("s2"), "ai_agent", None), LensRow(2, 2, Some("s1"), "ai_tab", None),
     LensRow(1, 2, Some("s1"), "mixed", Some(50)), LensRow(2, 3, Some("s2"), "mixed", Some(50))}

LensRows ==
    EngineRows \cup
    {LensRow(3, 1, Some("s2"), "ai_agent", None), LensRow(-1, 9, None, "ai_agent", None),
     LensRow(1, 1, Some("s2"), "", None), LensRow(3, 3, Some("s2"), "mixed", Some(306))}

LensProbe == [op |-> "rows", attrs |-> <<>>]

\* Rows folded one after the other into one line: of every type, with and
\* without a session, a tool, a model, a percentage and a trace.
FoldRow(author_type, session_id, ai_percentage, tool, model, trace_available) ==
    [start_line |-> 1, end_line |-> 1, session_id |-> session_id,
     author_type |-> author_type, ai_percentage |-> ai_percentage,
     tool |-> tool, model |-> model, trace_available |-> trace_available]

FoldRows ==
    {FoldRow("human", None, None, None, None, 0),
     FoldRow("human", Some("s1"), None, Some("codex"), Some("gpt"), 1),
     FoldRow("ai_agent", Some("s1"), None, Some("codex"), None, 0),
     FoldRow("ai_agent", None, None, None, Some("gpt"), 1),
     FoldRow("ai_agent", Some("s2"), None, Some("claude"), Some("tab"), 0),
     FoldRow("ai_tab", Some("s1"), None, None, None, 0),
     FoldRow("mixed", Some("s2"), Some(80), None, None, 0),
     FoldRow("mixed", None, None, Some("claude"), None, 1)}

\* Pairs of sorted and merged range lists: what merge_ranges of coverage.rs
\* makes of the lines of two sets of line numbers.
MergedListOf(line_set) ==
    coverage_merge_ranges(
        [k \in 1..Cardinality(line_set) |->
            LET n == CHOOSE x \in line_set : Cardinality({y \in line_set : y < x}) = k - 1
            IN <<n, n>>])

SweepProbes ==
    {[op |-> "sweep", changed |-> MergedListOf(c), attributed |-> MergedListOf(a),
      i |-> 1, j |-> 1, count |-> 0, steps |-> 0] :
        c \in SUBSET (1..MaxLine), a \in SUBSET (1..MaxLine)}

FoldProbe == [op |-> "fold", n |-> 0, prev |-> DefaultLineMeta, attr |-> None,
              meta |-> DefaultLineMeta]

\* Patches of one file given to the single-file Range Extractor, as
\* DiffFormat::Patch prints them: the file header, then hunks of a header,
\* deletions, additions and context lines; the new line numbers grow.
PatchLines ==
    {DiffLine("a.py", o, None, <<"x">>) : o \in {"H", "-", " "}}
        \cup {DiffLine("a.py", "+", Some(n), <<"x">>) : n \in 1..MaxPatch}

PatchProbe == [op |-> "patch", lines |-> <<DiffLine("a.py", "F", None, <<"d">>)>>]

\* Changed lines of two commits given to the Rewrite-Key Hasher: lines that
\* differ in whitespace only, in path, in marker, context lines, and lines
\* that begin like the header of a patch.
KeyLines ==
    {DiffLine("a.py", "+", Some(1), <<"x", "=", "1">>),
     DiffLine("a.py", "+", Some(1), <<"x", " ", "=", "\t", "1">>),
     DiffLine("a.py", "-", None, <<"x", "=", "1">>),
     DiffLine("b.py", "+", Some(1), <<"x", "=", "1">>),
     DiffLine("a.py", " ", Some(1), <<"y">>),
     DiffLine("a.py", "+", Some(1), <<"+", "+", "+", " ", "x">>),
     DiffLine("a.py", "+", Some(1), <<"+", "+", "+", "x">>)}

KeyProbe == [op |-> "diffs", left |-> <<>>, right |-> <<>>]

RECURSIVE NoteSize(_)
NoteSize(files) ==
    IF files = <<>> THEN 0 ELSE 1 + Len(Head(files).ranges) + NoteSize(Tail(files))

PureAddRange ==
    /\ probe.op = "merge"
    /\ Len(probe.ranges) < MaxRanges
    /\ \E r \in MergeInputs : probe' = [probe EXCEPT !.ranges = Append(@, r)]
    /\ UNCHANGED storeVars

\* merge_ranges of notes.rs and of coverage.rs on the same input
PureMerge ==
    /\ probe.op = "merge"
    /\ probe' = [op |-> "merged", ranges |-> probe.ranges,
                 notes_out |-> merge_ranges(probe.ranges),
                 coverage_out |-> coverage_merge_ranges(probe.ranges)]
    /\ UNCHANGED storeVars

\* compute_attribution_coverage for a commit whose rows are the ranges: the
\* first one in a.py, the others in file_path.
PureCoverage ==
    /\ probe.op = "merge"
    /\ probe.ranges # <<>>
    /\ \E commit_sha \in ProbeCommits, file_path \in {"a.py", "b.py"} :
          LET table == SeqToBag([i \in 1..Len(probe.ranges) |->
                          LineAttribution(1, commit_sha, IF i = 1 THEN "a.py" ELSE file_path,
                                          probe.ranges[i][1], probe.ranges[i][2], Some("s1"),
                                          "ai_agent", None, None, None)])
          IN probe' = [op |-> "coverage", commit_sha |-> commit_sha, table |-> table,
                       out |-> compute_attribution_coverage(table, 1, commit_sha)]
    /\ UNCHANGED storeVars

PureAddFile ==
    /\ probe.op = "note"
    /\ NoteSize(probe.files) < MaxNoteSize
    /\ \E path \in CodecPaths : probe' = [probe EXCEPT !.files = Append(@, NoteFile(path, <<>>))]
    /\ UNCHANGED storeVars

PureAddNoteRange ==
    /\ probe.op = "note"
    /\ probe.files # <<>>
    /\ NoteSize(probe.files) < MaxNoteSize
    /\ \E r \in CodecRanges :
          probe' = [probe EXCEPT !.files[Len(probe.files)].ranges = Append(@, r)]
    /\ UNCHANGED storeVars

\* parse_attribution_note(build_attribution_note(..))
PureCodec ==
    /\ probe.op = "note"
    /\ probe' = [op |-> "parsed", files |-> probe.files,
                 out |-> parse_attribution_note(
                             build_attribution_note("c1", probe.files, EmptySources,
                                                    None, None))]
    /\ UNCHANGED storeVars

PureAddRow ==
    /\ probe.op = "rows"
    /\ Len(probe.attrs) < MaxRows
    /\ \E attr \in LensRows : probe' = [probe EXCEPT !.attrs = Append(@, attr)]
    /\ UNCHANGED storeVars

\* build_line_meta on the rows in the order given, for a file of c1
PureLineMeta ==
    /\ probe.op = "rows"
    /\ \E file_path \in {"a.py", "b.py"} :
          probe' = [op |-> "lens", attrs |-> probe.attrs,
                    total_lines |-> FileLines("c1", file_path),
                    line_meta |-> build_line_meta(FileLines("c1", file_path), probe.attrs)]
    /\ UNCHANGED storeVars

\* compute_contribution_from_attributions for commit c1 of repo 1 whose rows
\* are the given ones: the first one in first_path, the others in file_path.
PureStats ==
    /\ probe.op = "rows"
    /\ probe.attrs # <<>>
    /\ \E first_path, file_path \in {"a.py", "b.py"} :
          LET table == SeqToBag([i \in 1..Len(probe.attrs) |->
                          LineAttribution(1, "c1", IF i = 1 THEN first_path ELSE file_path,
                                          probe.attrs[i].start_line, probe.attrs[i].end_line,
                                          probe.attrs[i].session_id, probe.attrs[i].author_type,
                                          probe.attrs[i].ai_percentage, probe.attrs[i].tool,
                                          probe.attrs[i].model)])
          IN \E out \in compute_contribution_from_attributions(table, 1, "c1") :
                probe' = [op |-> "stats", attrs |-> probe.attrs, table |-> table, out |-> out]
    /\ UNCHANGED storeVars

\* source_lens.rs line 149: one more row of the fold reaches the line
PureApply ==
    /\ probe.op = "fold"
    /\ probe.n < MaxFold
    /\ \E attr \in FoldRows :
          probe' = [op |-> "fold", n |-> probe.n + 1, prev |-> probe.meta,
                    attr |-> Some(attr), meta |-> apply_line_attr(probe.meta, attr)]
    /\ UNCHANGED storeVars

\* coverage.rs lines 105-128: one iteration of the while loop of
\* count_intersection (i and j are 1-based here)
PureSweepStep ==
    /\ probe.op = "sweep"
    /\ probe.i <= Len(probe.changed) /\ probe.j <= Len(probe.attributed)
    /\ LET c_start == probe.changed[probe.i][1]
           c_end == probe.changed[probe.i][2]
           a_start == probe.attributed[probe.j][1]
           a_end == probe.attributed[probe.j][2]
           start == Max(c_start, a_start)
           end == IF c_end <= a_end THEN c_end ELSE a_end
       IN probe' =
            IF c_end < a_start THEN [probe EXCEPT !.i = @ + 1, !.steps = @ + 1]
            ELSE IF a_end < c_start THEN [probe EXCEPT !.j = @ + 1, !.steps = @ + 1]
            ELSE [probe EXCEPT !.count = IF end >= start THEN @ + (end - start + 1) ELSE @,
                               !.i = IF c_end < a_end THEN @ + 1 ELSE @,
                               !.j = IF c_end < a_end THEN @ ELSE @ + 1,
                               !.steps = @ + 1]
    /\ UNCHANGED storeVars

PureAddPatchLine ==
    /\ probe.op = "patch"
    /\ Len(probe.lines) <= MaxPatch
    /\ \E line \in PatchLines :
        /\ line.origin # "H" => Len(probe.lines) > 1
        /\ line.origin = "+" =>
              \A i \in 1..Len(probe.lines) :
                  probe.lines[i].origin = "+" =>
                      Unwrap(probe.lines[i].new_lineno) < Unwrap(line.new_lineno)
        /\ probe' = [probe EXCEPT !.lines = Append(@, line)]
    /\ UNCHANGED storeVars

\* collect_changed_ranges, lines 186-261, on the lines of the patch, and
\* collect_changed_ranges_by_file, lines 94-153, on the same patch
PureRanges ==
    /\ probe.op = "patch"
    /\ probe' = [op |-> "ranges", lines |-> probe.lines,
                 out |-> PushRun(RangeFold(RangeState0, probe.lines)),
                 by_file |-> RangesByFile(probe.lines)]
    /\ UNCHANGED storeVars

\* The right diff is built once the left one is.
PureAddKeyLine ==
    /\ probe.op = "diffs"
    /\ \E line \in KeyLines :
        \/ /\ probe.right = <<>>
           /\ Len(probe.left) < MaxDiff
           /\ probe' = [probe EXCEPT !.left = Append(@, line)]
        \/ /\ Len(probe.right) < MaxDiff
           /\ probe' = [probe EXCEPT !.right = Append(@, line)]
    /\ UNCHANGED storeVars

\* compute_rewrite_key of two commits with the given diffs and trees
PureKeys ==
    /\ probe.op = "diffs"
    /\ \E left_tree, right_tree \in {"t1", "t3"} :
          probe' = [op |-> "keys", left |-> probe.left, right |-> probe.right,
                    left_tree |-> left_tree, right_tree |-> right_tree,
                    left_key |-> RewriteKeyOfDiff(probe.left, left_tree),
                    right_key |-> RewriteKeyOfDiff(probe.right, right_tree)]
    /\ UNCHANGED storeVars

InitPure ==
    /\ InitStore
    /\ session_links = Links
    /\ notes = NoNotes
    /\ discipline = "sequential"
    /\ faults = 0
    /\ probe \in {MergeProbe, CodecProbe}

NextPure ==
    \/ PureAddRange
    \/ PureMerge
    \/ PureCoverage
    \/ PureAddFile
    \/ PureAddNoteRange
    \/ PureCodec

SpecPure == InitPure /\ [][NextPure]_vars

\* The functions that work line by line: the reconciler and its fold, the
\* Range Extractors, the Rewrite-Key Hasher and the sweep of coverage.rs.
InitLines ==
    /\ InitStore
    /\ session_links = Links
    /\ notes = NoNotes
    /\ discipline = "sequential"
    /\ faults = 0
    /\ probe \in {LensProbe, PatchProbe, KeyProbe, FoldProbe} \cup SweepProbes

NextLines ==
    \/ PureAddRow
    \/ PureLineMeta
    \/ PureStats
    \/ PureAddPatchLine
    \/ PureRanges
    \/ PureAddKeyLine
    \/ PureKeys
    \/ PureApply
    \/ PureSweepStep

SpecLines == InitLines /\ [][NextLines]_vars

(***************************************************************************)
(* The sessions selected for a file, on link tables of every order.        *)
(***************************************************************************)
\* A row of session_links of one commit.
LinkRow(session_id, confidence, created_at) ==
    [session_id |-> session_id, confidence |-> confidence, created_at |-> created_at]

LinkProbe == [op |-> "links", rows |-> {}]

\* line_attribution.rs lines 313-320: the session ids in the orders that
\* ORDER BY l.confidence DESC, l.created_at DESC may return them (rows that
\* tie on both come in any order).
SessionsInQueryOrder(rows) ==
    {[i \in 1..Cardinality(rows) |-> p[i].session_id] :
        p \in {q \in Perms(rows) :
                  \A i, j \in 1..Cardinality(rows) :
                      i < j => \/ q[i].confidence > q[j].confidence
                               \/ /\ q[i].confidence = q[j].confidence
                                  /\ q[i].created_at >= q[j].created_at}}

\* One more session is linked to the commit.
PureAddLink ==
    /\ probe.op = "links"
    /\ Cardinality(probe.rows) < MaxLinks
    /\ \E id \in SessionIds, confidence \in 1..2, created_at \in 1..2 :
        /\ \A r \in probe.rows : r.session_id # id
        /\ probe' = [probe EXCEPT !.rows = @ \cup {LinkRow(id, confidence, created_at)}]
    /\ UNCHANGED storeVars

\* lines 48-71: the sessions are fetched (an empty list ends the call) and
\* the sessions of a touched file are selected.
PureSelect ==
    /\ probe.op = "links"
    /\ probe.rows # {}
    /\ \E file_path \in {"a.py", "b.py", "c.py"}, linked \in SessionsInQueryOrder(probe.rows) :
        LET target_indexes == TargetIndexes(linked, file_path) IN
        probe' = [op |-> "selected", rows |-> probe.rows, file_path |-> file_path,
                  linked |-> linked,
                  out |-> [j \in 1..Len(target_indexes) |-> linked[target_indexes[j]]]]
    /\ UNCHANGED storeVars

InitLinks ==
    /\ InitStore
    /\ session_links = Links
    /\ notes = NoNotes
    /\ discipline = "sequential"
    /\ faults = 0
    /\ probe = LinkProbe

NextLinks ==
    \/ PureAddLink
    \/ PureSelect

SpecLinks == InitLinks /\ [][NextLinks]_vars

(***************************************************************************)
(* parse_attribution_note on note texts line by line.                      *)
(***************************************************************************)
\* The lines of the texts: a path, range lists with well-formed tokens and
\* with tokens that are zero, negative, no number or without an end, the
\* separator with and without indentation, a range line of a session called
\* `---`, a JSON document and a blank line.
TextLines ==
    {PathLine(FALSE, "a.py"),
     RangeLineOf(TRUE, "s1 1-2", "s1", <<Seg(TRUE, Some(1), Some(2))>>),
     RangeLineOf(TRUE, "s1 0, x, 3", "s1",
                 <<Seg(FALSE, Some(0), None), Seg(FALSE, None, None), Seg(FALSE, Some(3), None)>>),
     RangeLineOf(TRUE, "s2 -1-2, x-4, 2-x, 3-1", "s2",
                 <<Seg(TRUE, None, Some(2)), Seg(TRUE, None, Some(4)),
                   Seg(TRUE, Some(2), None), Seg(TRUE, Some(3), Some(1))>>),
     RangeLineOf(TRUE, "--- 1", "---", <<Seg(FALSE, Some(1), None)>>),
     SepLine(FALSE),
     SepLine(TRUE),
     JsonLine("{..}", Some(NotePayload(Some(ForeignKey), None, None))),
     BlankLine}

TextProbe == [op |-> "text", lines |-> <<>>]

PureAddTextLine ==
    /\ probe.op = "text"
    /\ Len(probe.lines) < MaxText
    /\ \E line \in TextLines : probe' = [probe EXCEPT !.lines = Append(@, line)]
    /\ UNCHANGED storeVars

\* notes.rs lines 105-222: the text is parsed
PureParse ==
    /\ probe.op = "text"
    /\ probe' = [op |-> "parsed", lines |-> probe.lines,
                 json_lines |-> ParseLines(ParseState0, probe.lines).json_lines,
                 parsed |-> parse_attribution_note(probe.lines)]
    /\ UNCHANGED storeVars

InitText ==
    /\ InitStore
    /\ session_links = Links
    /\ notes = NoNotes
    /\ discipline = "sequential"
    /\ faults = 0
    /\ probe = TextProbe

NextText ==
    \/ PureAddTextLine
    \/ PureParse

SpecText == InitText /\ [][NextText]_vars

(***************************************************************************)
(* The OTLP receiver: otlp_receiver.rs, start, stop and the spawned task.  *)
(***************************************************************************)
\* What the receiver's steps leave alone.
attributionVars == <<line_attributions, commit_rewrite_keys, commit_contribution_stats,
                     attribution_note_meta, attribution_prefs, session_links, notes, now,
                     tasks, discipline, calls, faults, probe>>

\* A receiver right after the swap of lines 285-293: old_runtime is what the
\* slot held, shutdown tells where the sender of its oneshot channel is (held
\* in a runtime, sent, or dropped with its runtime), stopped that a stop
\* request took it out of the slot.
Receiver(old_runtime) ==
    [pc |-> "signal", old_runtime |-> old_runtime, shutdown |-> "held", stopped |-> FALSE]

\* shutdown_rx.await of line 341 resolves when the sender was used or dropped
ShutdownResolved(r) == r.shutdown # "held"

\* clear_receiver_runtime, lines 1170-1174: the slot becomes None and the
\* runtime it held is dropped, its sender with it
clear_receiver_runtime(slot, recs) ==
    IF IsSome(slot) THEN [recs EXCEPT ![Unwrap(slot)].shutdown = "dropped"] ELSE recs

\* start_otlp_receiver, lines 281-293: under the lock the slot takes the new
\* runtime and gives the old one
StartSwap ==
    /\ Len(receivers) < MaxReceivers
    /\ receivers' = Append(receivers, Receiver(runtime))
    /\ runtime' = Some(Len(receivers) + 1)
    /\ UNCHANGED attributionVars

\* start_otlp_receiver, lines 295-360: the old runtime is sent the shutdown
\* signal and the task of the new receiver is spawned
StartSpawn(id) ==
    /\ receivers[id].pc = "signal"
    /\ LET old_runtime == receivers[id].old_runtime
           signalled == IF IsSome(old_runtime)
                        THEN [receivers EXCEPT ![Unwrap(old_runtime)].shutdown = "sent"]
                        ELSE receivers
       IN receivers' = [signalled EXCEPT ![id].pc = "bind"]
    /\ UNCHANGED <<attributionVars, runtime>>

\* the task, lines 315-330: the listener binds, or it does not and the task
\* clears the slot and returns
TaskBind(id) ==
    /\ receivers[id].pc = "bind"
    /\ \E bound \in BOOLEAN :
          IF bound
          THEN /\ receivers' = [receivers EXCEPT ![id].pc = "serving"]
               /\ UNCHANGED runtime
          ELSE /\ receivers' = [clear_receiver_runtime(runtime, receivers) EXCEPT
                                    ![id].pc = "finished"]
               /\ runtime' = None
    /\ UNCHANGED attributionVars

\* the task, lines 340-358: serve ends, with the shutdown signal or with an
\* error, and the task clears the slot
TaskServeEnd(id) ==
    /\ receivers[id].pc = "serving"
    /\ \E failed \in BOOLEAN : failed \/ ShutdownResolved(receivers[id])
    /\ receivers' = [clear_receiver_runtime(runtime, receivers) EXCEPT ![id].pc = "finished"]
    /\ runtime' = None
    /\ UNCHANGED attributionVars

\* stop_otlp_receiver, lines 368-373: under the lock the slot is emptied and
\* the runtime it held is sent the shutdown signal
stop_otlp_receiver ==
    /\ IF IsSome(runtime)
       THEN receivers' = [receivers EXCEPT ![Unwrap(runtime)].shutdown = "sent",
                                           ![Unwrap(runtime)].stopped = TRUE]
       ELSE UNCHANGED receivers
    /\ runtime' = None
    /\ UNCHANGED attributionVars

InitReceiver ==
    /\ InitStore
    /\ session_links = Links
    /\ notes = NoNotes
    /\ discipline = "sequential"
    /\ faults = 0
    /\ probe = NoProbe

\* Callers that start and stop the receiver from any thread, and the tasks.
NextReceiver ==
    \/ StartSwap
    \/ \E id \in 1..Len(receivers) : StartSpawn(id)
    \/ \E id \in 1..Len(receivers) : TaskBind(id)
    \/ \E id \in 1..Len(receivers) : TaskServeEnd(id)
    \/ stop_otlp_receiver

SpecReceiver == InitReceiver /\ [][NextReceiver]_vars

(***************************************************************************)
(* Properties of ensure_line_attributions_for_commit.                      *)
(***************************************************************************)
EnsureDone(fr) == fr.op = "ensure" /\ fr.pc = "done"

HasRows(table, repo_id, commit_sha) == DOMAIN RowsOf(table, repo_id, commit_sha) # {}

\* The rows of a bag, re-labelled with another commit sha.
Retarget(rows, commit_sha) ==
    LET moved == {[x EXCEPT !.commit_sha = commit_sha] : x \in DOMAIN rows} IN
    [r \in moved |-> rows[CHOOSE x \in DOMAIN rows : [x EXCEPT !.commit_sha = commit_sha] = r]]

\* The commits that, when the call started, were recorded with the target's
\* rewrite key in the same repo and had rows.
Donors(fr) ==
    {c \in CommitsOf(fr.repo_id) \ {fr.commit_sha} :
        LET e == Unwrap(fr.pre).keys[<<fr.repo_id, c>>] IN
        /\ IsSome(e)
        /\ Unwrap(e).rewrite_key = compute_rewrite_key(fr.commit_sha)
        /\ HasRows(Unwrap(fr.pre).rows, fr.repo_id, c)}

\* The steps of ensure whose failure is handed to the caller with `?`.
PropagatingPoints == {"exists", "sessions", "files", "ranges", "insert"}

\* C1: when ensure is called a second time for the same (repo, commit) right
\* after a call in which no step failed, the rows of (repo, commit) after the
\* second call are the rows after the first.
C1_EnsureTwiceSameRows ==
    \A t \in TaskIds :
        LET fr == tasks[t] IN
        (EnsureDone(fr) /\ IsSome(fr.prev) /\ Unwrap(fr.prev).failed = {})
            => RowsOf(line_attributions, fr.repo_id, fr.commit_sha) = Unwrap(fr.prev).rows

\* A second call has returned for a commit the first call gave rows.
C1_Witness ==
    \E t \in TaskIds :
        LET fr == tasks[t] IN
        /\ EnsureDone(fr) /\ IsSome(fr.prev) /\ Unwrap(fr.prev).failed = {}
        /\ fr.result = "ok" /\ fr.outcome = "present"
        /\ DOMAIN Unwrap(fr.prev).rows # {}

\* C2: when the calls for one (repo, commit) are serialized, no row is stored
\* more than once; calls started freely can both pass the existence check and
\* store the same row twice (C2_Witness).
C2_SerializedNoDuplicateRows ==
    discipline = "per_key" => \A r \in DOMAIN line_attributions : line_attributions[r] = 1

\* Two calls for the same commit, started freely, have both computed its rows
\* and a row is stored twice.
C2_Witness ==
    /\ discipline = "none"
    /\ \A t \in TaskIds : EnsureDone(tasks[t]) /\ tasks[t].outcome = "computed"
    /\ tasks[1].repo_id = tasks[2].repo_id /\ tasks[1].commit_sha = tasks[2].commit_sha
    /\ \E r \in DOMAIN line_attributions :
          /\ r.repo_id = tasks[1].repo_id /\ r.commit_sha = tasks[1].commit_sha
          /\ line_attributions[r] >= 2

\* C3: if the target had no rows and a donor (same repo, recorded with the
\* target's rewrite key, with rows) existed, then after a call in which no step
\* failed the target's rows are the donor's rows under the target's sha, and no
\* other row was added, changed or removed.
C3_RecoveredRowsAreDonorRows ==
    \A t \in TaskIds :
        LET fr == tasks[t] IN
        (/\ EnsureDone(fr) /\ fr.failed = {}
         /\ ~HasRows(Unwrap(fr.pre).rows, fr.repo_id, fr.commit_sha)
         /\ Donors(fr) # {})
            => /\ fr.result = "ok"
               /\ \E d \in Donors(fr) :
                     line_attributions =
                        Unwrap(fr.pre).rows
                        (+) Retarget(RowsOf(Unwrap(fr.pre).rows, fr.repo_id, d), fr.commit_sha)

\* A commit with linked sessions of its own got the rows of its donor.
C3_Witness ==
    \E t \in TaskIds :
        LET fr == tasks[t] IN
        /\ EnsureDone(fr) /\ fr.failed = {} /\ fr.outcome = "recovered"
        /\ Donors(fr) # {}
        /\ session_links[<<fr.repo_id, fr.commit_sha>>] # <<>>
        /\ HasRows(line_attributions, fr.repo_id, fr.commit_sha)

\* C4: if the commit had a row when the call started, the call leaves the rows
\* of every commit as they were, and returns success unless the existence check
\* itself failed.
C4_PresentIsNoOp ==
    \A t \in TaskIds :
        LET fr == tasks[t] IN
        (EnsureDone(fr) /\ HasRows(Unwrap(fr.pre).rows, fr.repo_id, fr.commit_sha))
            => /\ line_attributions = Unwrap(fr.pre).rows
               /\ fr.failed = {} => (fr.result = "ok" /\ fr.outcome = "present")

\* The call returned through the Present branch while another commit had rows.
C4_Witness ==
    \E t \in TaskIds :
        LET fr == tasks[t] IN
        /\ EnsureDone(fr) /\ fr.result = "ok" /\ fr.outcome = "present"
        /\ HasRows(line_attributions, fr.repo_id, fr.commit_sha)
        /\ \E r \in DOMAIN line_attributions : r.commit_sha # fr.commit_sha

\* The rewrite-key table holds the commit's freshly computed key.
HoldsFreshKey(keys, repo_id, commit_sha) ==
    /\ IsSome(keys[<<repo_id, commit_sha>>])
    /\ Unwrap(keys[<<repo_id, commit_sha>>]).rewrite_key = compute_rewrite_key(commit_sha)

\* C5 as stated: after every call that returns success (here: even one in which
\* no step failed) the rewrite-key table holds the commit's fresh key.
C5_AsStated ==
    \A t \in TaskIds :
        LET fr == tasks[t] IN
        (EnsureDone(fr) /\ fr.result = "ok" /\ fr.failed = {})
            => HoldsFreshKey(commit_rewrite_keys, fr.repo_id, fr.commit_sha)

\* A key write of the call went through.
KeyWritten(fr) ==
    \/ "restore_key" \notin fr.failed
    \/ fr.outcome = "computed" /\ "final_key" \notin fr.failed

\* C5 amended: a successful call through the Present branch leaves the
\* rewrite-key table as it was; a successful call through another branch leaves
\* the commit recorded with its fresh key under the algorithm "patch-id" when a
\* key write of the call went through, and as it was otherwise; the entries of
\* other commits are untouched.
C5_KeyAfterEnsure ==
    \A t \in TaskIds :
        LET fr == tasks[t]
            key == <<fr.repo_id, fr.commit_sha>>
        IN (EnsureDone(fr) /\ fr.result = "ok")
            => /\ \A k \in Keys \ {key} : commit_rewrite_keys[k] = Unwrap(fr.pre).keys[k]
               /\ fr.outcome = "present" => commit_rewrite_keys[key] = Unwrap(fr.pre).keys[key]
               /\ (fr.outcome # "present" /\ KeyWritten(fr))
                     => /\ HoldsFreshKey(commit_rewrite_keys, fr.repo_id, fr.commit_sha)
                        /\ Unwrap(commit_rewrite_keys[key]).algorithm = REWRITE_KEY_ALGORITHM
               /\ (fr.outcome # "present" /\ ~KeyWritten(fr))
                     => commit_rewrite_keys[key] = Unwrap(fr.pre).keys[key]

\* A call replaced the key a note had recorded for the commit by the fresh one.
C5_Witness ==
    \E t \in TaskIds :
        LET fr == tasks[t]
            key == <<fr.repo_id, fr.commit_sha>>
        IN /\ EnsureDone(fr) /\ fr.result = "ok" /\ fr.outcome # "present"
           /\ IsSome(Unwrap(fr.pre).keys[key])
           /\ Unwrap(Unwrap(fr.pre).keys[key]).rewrite_key = ForeignKey
           /\ HoldsFreshKey(commit_rewrite_keys, fr.repo_id, fr.commit_sha)

\* C6 as stated: a call in which a step failed stops at that step and returns
\* an error.
C6_AsStated ==
    \A t \in TaskIds :
        LET fr == tasks[t] IN
        (fr.op = "ensure" /\ fr.failed # {}) => (fr.pc = "done" /\ fr.result = "err")

\* C6 amended: a failure of the existence check, of the session query, of
\* opening the repository or listing the commit's files, of the range
\* extraction or of a row insert stops the call at once with an error, and the
\* call returns an error in no other case; a failure while computing or storing
\* the rewrite key, while looking for or copying from a donor, or while
\* refreshing the cached stats is passed over and the call goes on.
C6_ErrorIffPropagatingFailure ==
    \A t \in TaskIds :
        LET fr == tasks[t] IN
        fr.op = "ensure"
            => /\ Running(fr) => fr.failed \cap PropagatingPoints = {}
               /\ fr.pc = "done" =>
                     (fr.result = "err" <=> fr.failed \cap PropagatingPoints # {})

\* An insert failed after a row had been stored: the call stopped with an error.
C6_Witness ==
    \E t \in TaskIds :
        LET fr == tasks[t] IN
        /\ EnsureDone(fr) /\ fr.result = "err" /\ fr.failed = {"insert"}
        /\ HasRows(line_attributions, fr.repo_id, fr.commit_sha)
        /\ ~HasRows(Unwrap(fr.pre).rows, fr.repo_id, fr.commit_sha)

\* C7: when the commit has no rows, no donor exists and no session is linked,
\* the call adds no row to any commit, and it returns success unless the
\* existence check or the session query itself failed.
C7_AbsentIsSuccess ==
    \A t \in TaskIds :
        LET fr == tasks[t] IN
        (/\ EnsureDone(fr)
         /\ ~HasRows(Unwrap(fr.pre).rows, fr.repo_id, fr.commit_sha)
         /\ Donors(fr) = {}
         /\ session_links[<<fr.repo_id, fr.commit_sha>>] = <<>>)
            => /\ ~HasRows(line_attributions, fr.repo_id, fr.commit_sha)
               /\ line_attributions = Unwrap(fr.pre).rows
               /\ fr.failed \cap PropagatingPoints = {}
                     => (fr.result = "ok" /\ fr.outcome = "absent")

\* The call returned success without rows, while the same sha has rows and a
\* recorded key in another repo.
C7_Witness ==
    \E t \in TaskIds :
        LET fr == tasks[t] IN
        /\ EnsureDone(fr) /\ fr.result = "ok" /\ fr.outcome = "absent" /\ fr.failed = {}
        /\ Donors(fr) = {}
        /\ ~HasRows(line_attributions, fr.repo_id, fr.commit_sha)
        /\ \E r \in DOMAIN line_attributions : r.commit_sha = fr.commit_sha

(***************************************************************************)
(* Properties of import_attribution_note_internal.                         *)
(***************************************************************************)
ImportDone(fr) == fr.op = "import" /\ fr.pc = "done"

RECURSIVE SumOver(_, _)
SumOver(b, S) ==
    IF S = {} THEN 0
    ELSE LET x == CHOOSE y \in S : TRUE IN b[x] + SumOver(b, S \ {x})

RangeOfRow(r) ==
    [path |-> r.file_path, start_line |-> r.start_line, end_line |-> r.end_line,
     session_id |-> r.session_id]

\* The (file, start, end, session) of the rows of a bag, with multiplicity.
ProjectRows(rows) ==
    [k \in {RangeOfRow(r) : r \in DOMAIN rows} |->
        SumOver(rows, {r \in DOMAIN rows : RangeOfRow(r) = k})]

\* The (file, start, end, session) of the ranges of a parsed note, with multiplicity.
ParsedRanges(parsed) ==
    LET items == NoteRanges(parsed.files) IN
    SeqToBag([i \in 1..Len(items) |->
                [path |-> items[i].path, start_line |-> items[i].range.start_line,
                 end_line |-> items[i].range.end_line,
                 session_id |-> Some(items[i].range.session_id)]])

\* The note the repository holds for a commit: under the current ref, else
\* under the legacy ref, else none.
NoteAt(repo_id, commit_sha) ==
    OrElse(notes[ATTRIBUTION_NOTES_REF][<<repo_id, commit_sha>>],
           notes[LEGACY_ATTRIBUTION_NOTES_REF][<<repo_id, commit_sha>>])

\* A line that names a file stands before the first separator.
HasFileSection(lines) ==
    \E i \in 1..Len(lines) :
        /\ ~lines[i].indent /\ lines[i].kind \notin {"blank", "sep"}
        /\ \A j \in 1..(i - 1) : lines[j].kind # "sep"

\* After the first separator stands a text that is no JSON object.
HasBadTail(lines) ==
    \E i \in 1..Len(lines) :
        /\ lines[i].kind = "sep"
        /\ \A j \in 1..(i - 1) : lines[j].kind # "sep"
        /\ \E j \in (i + 1)..Len(lines) : lines[j].kind = "json" /\ IsNone(lines[j].payload)

\* The rows of the commits other than (repo_id, commit_sha).
RowsOfOthers(table, repo_id, commit_sha) ==
    [r \in {x \in DOMAIN table : x.repo_id # repo_id \/ x.commit_sha # commit_sha}
        |-> table[r]]

\* C8: after an import that returns status imported the commit's rows are one
\* row per range parsed from the note (file, start, end, session), no row the
\* commit had before remains beside them, and the rows of every other commit
\* are as before the call.
C8_ImportReplacesRows ==
    \A t \in TaskIds :
        LET fr == tasks[t] IN
        (ImportDone(fr) /\ fr.result = "ok" /\ fr.outcome = "imported")
            => /\ ProjectRows(RowsOf(line_attributions, fr.repo_id, fr.commit_sha))
                    = ParsedRanges(parse_attribution_note(
                                       Unwrap(NoteAt(fr.repo_id, fr.commit_sha)).lines))
               /\ RowsOfOthers(line_attributions, fr.repo_id, fr.commit_sha)
                    = RowsOfOthers(Unwrap(fr.pre).rows, fr.repo_id, fr.commit_sha)

\* An import replaced the rows a commit had, while another commit had rows too.
C8_Witness ==
    \E t \in TaskIds :
        LET fr == tasks[t] IN
        /\ ImportDone(fr) /\ fr.result = "ok" /\ fr.outcome = "imported"
        /\ HasRows(Unwrap(fr.pre).rows, fr.repo_id, fr.commit_sha)
        /\ \E r \in DOMAIN line_attributions : r.commit_sha # fr.commit_sha
        /\ \E r \in DOMAIN line_attributions :
              r.commit_sha = fr.commit_sha /\ line_attributions[r] = 2

\* The commit has no note, or a note without a file section, or a note whose
\* body is not text.
MissingOrMalformed(repo_id, commit_sha) ==
    LET found == NoteAt(repo_id, commit_sha) IN
    \/ IsNone(found)
    \/ ~Unwrap(found).utf8
    \/ ~HasFileSection(Unwrap(found).lines)

\* C9 as stated: for a commit without a note the import returns status missing,
\* for a note without a file section or with a body that is not text it returns
\* status invalid, always as a successful result (here: even when no step of
\* the call failed), and the rows stay as they were.
C9_AsStated ==
    \A t \in TaskIds :
        LET fr == tasks[t] IN
        (ImportDone(fr) /\ fr.failed = {} /\ MissingOrMalformed(fr.repo_id, fr.commit_sha))
            => /\ fr.result = "ok"
               /\ fr.outcome = (IF IsNone(NoteAt(fr.repo_id, fr.commit_sha))
                                THEN "missing" ELSE "invalid")
               /\ line_attributions = Unwrap(fr.pre).rows

\* C9 amended: when the repository could be read, the import of a commit
\* without a note returns success with status missing, the import of a text
\* note without a file section returns success with status invalid, and the
\* import of a note whose body is not text returns an error; in all three cases
\* the line-attribution rows stay as they were.
C9_MissingInvalidOrError ==
    \A t \in TaskIds :
        LET fr == tasks[t]
            found == NoteAt(fr.repo_id, fr.commit_sha)
        IN (ImportDone(fr) /\ "imp_read" \notin fr.failed
                /\ MissingOrMalformed(fr.repo_id, fr.commit_sha))
            => /\ IsNone(found) => (fr.result = "ok" /\ fr.outcome = "missing")
               /\ (IsSome(found) /\ ~Unwrap(found).utf8) => fr.result = "err"
               /\ (IsSome(found) /\ Unwrap(found).utf8)
                     => (fr.result = "ok" /\ fr.outcome = "invalid")
               /\ line_attributions = Unwrap(fr.pre).rows

\* The import of a note that is not text returned an error for a commit that
\* has rows.
C9_Witness ==
    \E t \in TaskIds :
        LET fr == tasks[t]
            found == NoteAt(fr.repo_id, fr.commit_sha)
        IN /\ ImportDone(fr) /\ fr.failed = {}
           /\ IsSome(found) /\ ~Unwrap(found).utf8
           /\ fr.result = "err"
           /\ HasRows(line_attributions, fr.repo_id, fr.commit_sha)

\* C10: the import of a text note with a file section and a tail that is no
\* JSON takes the sources map, the rewrite key and the algorithm as empty, and,
\* when no step of the call fails, returns success with status imported and
\* leaves the commit with one row per range of the file section, under the
\* session id the range was listed for.
C10_BadTailStillImports ==
    \A t \in TaskIds :
        LET fr == tasks[t]
            found == NoteAt(fr.repo_id, fr.commit_sha)
        IN (/\ ImportDone(fr) /\ "imp_read" \notin fr.failed
            /\ IsSome(found) /\ Unwrap(found).utf8
            /\ HasFileSection(Unwrap(found).lines) /\ HasBadTail(Unwrap(found).lines))
            => /\ fr.parsed.sources = EmptySources
               /\ IsNone(fr.parsed.rewrite_key) /\ IsNone(fr.parsed.rewrite_algorithm)
               /\ fr.failed = {}
                     => /\ fr.result = "ok" /\ fr.outcome = "imported"
                        /\ ProjectRows(RowsOf(line_attributions, fr.repo_id, fr.commit_sha))
                             = ParsedRanges(fr.parsed)
                        /\ fr.imported_ranges
                             = BagCardinality(RowsOf(line_attributions, fr.repo_id, fr.commit_sha))

\* The note with the broken tail was imported: its range 2-3 of a.py is stored
\* for session s2.
C10_Witness ==
    \E t \in TaskIds :
        LET fr == tasks[t] IN
        /\ ImportDone(fr) /\ fr.failed = {} /\ fr.note = Some(BadTailNote)
        /\ fr.result = "ok" /\ fr.outcome = "imported"
        /\ \E r \in DOMAIN line_attributions :
              /\ r.repo_id = fr.repo_id /\ r.commit_sha = fr.commit_sha
              /\ RangeOfRow(r) = [path |-> "a.py", start_line |-> 2, end_line |-> 3,
                                  session_id |-> Some("s2")]
        /\ BagCardinality(RowsOf(line_attributions, fr.repo_id, fr.commit_sha)) = 1

(***************************************************************************)
(* Properties of the range merge and of the coverage aggregator.           *)
(***************************************************************************)
\* The line numbers a list of ranges <<start, end>> covers.
Covered(ranges) == UNION {ranges[i][1]..ranges[i][2] : i \in 1..Len(ranges)}

SortedByStart(ranges) == \A i, j \in 1..Len(ranges) : i < j => ranges[i][1] <= ranges[j][1]

NonOverlapping(ranges) ==
    \A i, j \in 1..Len(ranges) :
        i # j => (ranges[i][1]..ranges[i][2]) \cap (ranges[j][1]..ranges[j][2]) = {}

MergeInvariant(input, output) ==
    /\ SortedByStart(output)
    /\ NonOverlapping(output)
    /\ Covered(output) = Covered(input)

\* C12: for any input list of ranges, the output of merge_ranges, in the note
\* codec and in the coverage aggregator, is sorted by start, pairwise
\* non-overlapping, and covers exactly the line numbers the input covers.
C12_AsStated ==
    probe.op = "merged" =>
        /\ MergeInvariant(probe.ranges, probe.notes_out)
        /\ MergeInvariant(probe.ranges, probe.coverage_out)

\* The added lines of a commit, counted from its patch.
ChangedLineTotal(commit_sha) ==
    Cardinality({<<l.path, l.new_lineno>> :
                    l \in {x \in Range(CommitDiff(commit_sha)) : x.origin = "+"}})

\* C16: a coverage summary has attributed_lines <= total_changed_lines, hence
\* a coverage_percent between 0 and 100, and a commit without changed lines
\* gets None instead of a summary.
C16_CoverageBounded ==
    probe.op = "coverage" =>
        /\ IsSome(probe.out) =>
              LET summary == Unwrap(probe.out) IN
              /\ summary.total_changed_lines = ChangedLineTotal(probe.commit_sha)
              /\ summary.attributed_lines >= 0
              /\ summary.attributed_lines <= summary.total_changed_lines
              /\ summary.coverage_percent[2] > 0
              /\ summary.coverage_percent[1] >= 0
              /\ summary.coverage_percent[1] <= 100 * summary.coverage_percent[2]
        /\ ChangedLineTotal(probe.commit_sha) = 0 => probe.out = None

\* Rows reaching beyond the changed lines of a commit: part of the changed
\* lines is attributed, part is not.
C16_Witness ==
    /\ probe.op = "coverage"
    /\ IsSome(probe.out)
    /\ Unwrap(probe.out).attributed_lines > 0
    /\ Unwrap(probe.out).attributed_lines < Unwrap(probe.out).total_changed_lines
    /\ \E r \in DOMAIN probe.table : r.end_line > 3

(***************************************************************************)
(* The note codec round trip.                                              *)
(***************************************************************************)
\* The (file, session, range) triples of a list of files.
Triples(files) ==
    {<<files[i].path, files[i].ranges[j].session_id,
       <<files[i].ranges[j].start_line, files[i].ranges[j].end_line>>>> :
        <<i, j>> \in {<<i, j>> \in (1..Len(files)) \X (1..MaxNoteSize) :
                          j <= Len(files[i].ranges)}}

\* The triples of the ranges merged per entry of the list and session.
MergedTriples(files) ==
    UNION {LET f == files[i]
               ids == {f.ranges[j].session_id : j \in 1..Len(f.ranges)}
               of(id) == LET mine == SelectSeq(f.ranges, LAMBDA r : r.session_id = id)
                         IN [j \in 1..Len(mine) |-> <<mine[j].start_line, mine[j].end_line>>]
           IN UNION {{<<f.path, id, m>> : m \in Range(merge_ranges(of(id)))} : id \in ids} :
           i \in 1..Len(files)}

\* C11 as stated: for any list of files, parsing the built note yields the
\* triples of the merged ranges of each file and session.
C11_AsStated ==
    probe.op = "parsed" => Triples(probe.out.files) = MergedTriples(probe.files)

\* Paths are non-blank single lines without surrounding whitespace and
\* other than the separator, session ids are single words, start lines are
\* at least 1.
CodecWellFormed(files) ==
    \A i \in 1..Len(files) :
        /\ Text(files[i].path).words # <<>>
        /\ Text(files[i].path).trim = files[i].path
        /\ files[i].path # "---"
        /\ \A j \in 1..Len(files[i].ranges) :
              /\ Text(files[i].ranges[j].session_id).words = <<files[i].ranges[j].session_id>>
              /\ files[i].ranges[j].start_line >= 1

\* C11, amended: for a well-formed list of files, parsing the built note
\* yields exactly the triples of the ranges merged per entry and session.
C11_RoundTripWellFormed ==
    (probe.op = "parsed" /\ CodecWellFormed(probe.files))
        => Triples(probe.out.files) = MergedTriples(probe.files)

\* A well-formed file with two sessions, one of them with ranges that merge.
C11_Witness ==
    /\ probe.op = "parsed"
    /\ CodecWellFormed(probe.files)
    /\ Len(probe.files) = 1
    /\ probe.files[1].ranges = <<NoteRange("s1", 3, 4), NoteRange("s2", 2, 3), NoteRange("s1", 1, 2)>>
    /\ Triples(probe.out.files) = {<<"a.py", "s1", <<1, 4>>>>, <<"a.py", "s2", <<2, 3>>>>}

(***************************************************************************)
(* The reconciler and the stats computed from its verdicts.                *)
(***************************************************************************)
StatsSum(stats) ==
    stats.human_lines + stats.ai_agent_lines + stats.ai_assist_lines + stats.collaborative_lines

\* The files of c1 that have a row in the table.
FilesWithRows(table) == {r.file_path : r \in DOMAIN table}

RECURSIVE SumLines(_, _)
SumLines(commit_sha, files) ==
    IF files = {} THEN 0
    ELSE LET f == CHOOSE x \in files : TRUE
         IN FileLines(commit_sha, f) + SumLines(commit_sha, files \ {f})

\* C13: for a file of N lines and any rows the reconciler returns N
\* verdicts, one per line 1..N, and the four line counts of the stats
\* computed from the verdicts add up to total_lines, the lines of the files.
C13_OneVerdictPerLine ==
    /\ probe.op = "lens" =>
          /\ Len(probe.line_meta) = probe.total_lines
          /\ DOMAIN probe.line_meta = 1..probe.total_lines
          /\ LET c == FileCounts(probe.total_lines, probe.attrs)
             IN c[1] + c[2] + c[3] + c[4] = probe.total_lines
    /\ probe.op = "stats" =>
          /\ IsSome(probe.out)
          /\ StatsSum(Unwrap(probe.out)) = Unwrap(probe.out).total_lines
          /\ Unwrap(probe.out).total_lines = SumLines("c1", FilesWithRows(probe.table))

\* Overlapping rows, one of them inverted and one out of range, in stats over
\* both files.
C13_Witness ==
    /\ probe.op = "stats"
    /\ \E i \in 1..Len(probe.attrs) : probe.attrs[i].start_line > probe.attrs[i].end_line
    /\ \E i \in 1..Len(probe.attrs) : probe.attrs[i].end_line > 4
    /\ FilesWithRows(probe.table) = {"a.py", "b.py"}
    /\ Unwrap(probe.out).total_lines = 7
    /\ Unwrap(probe.out).collaborative_lines > 0
    /\ Unwrap(probe.out).human_lines > 0

\* The lines a row is folded into.
LinesOfRow(attr, total_lines) ==
    {i \in 1..total_lines :
        /\ i >= attr.start_line
        /\ i <= (IF attr.end_line >= attr.start_line /\ attr.end_line >= 1 THEN attr.end_line
                 ELSE IF attr.start_line >= 1 THEN attr.start_line ELSE 1)}

\* The row's type differs from the line's, or the row is not mixed and row and
\* line have known session ids that differ.
MixCondition(meta, attr) ==
    \/ attr.author_type # meta.author_type
    \/ /\ attr.author_type # "mixed"
       /\ meta.session_id # None
       /\ attr.session_id # None
       /\ meta.session_id # attr.session_id

\* C14: a row folded into a line with a non-default verdict makes the line
\* mixed with ai_percentage 50 when the mix condition holds, and otherwise
\* leaves the line's type alone and its percentage too, unless the row is
\* mixed and brings its own; a line attributed by two distinct sessions in
\* rows as the engine writes them ends mixed with ai_percentage 50.
C14_MixedExactlyOnConflict ==
    probe.op = "lens" =>
        /\ \A k \in 1..Len(probe.attrs) : \A i \in LinesOfRow(probe.attrs[k], probe.total_lines) :
              LET attr == probe.attrs[k]
                  before == build_line_meta(probe.total_lines, SubSeq(probe.attrs, 1, k - 1))[i]
                  after == build_line_meta(probe.total_lines, SubSeq(probe.attrs, 1, k))[i]
              IN before.author_type # "human" =>
                    IF MixCondition(before, attr)
                    THEN after.author_type = "mixed" /\ after.ai_percentage = Some(50)
                    ELSE /\ after.author_type = before.author_type
                         /\ \/ after.ai_percentage = before.ai_percentage
                            \/ /\ attr.author_type = "mixed"
                               /\ attr.ai_percentage # None
                               /\ after.ai_percentage = Some(Unwrap(attr.ai_percentage) % 256)
        /\ Range(probe.attrs) \subseteq EngineRows =>
              \A i \in 1..probe.total_lines :
                  (\E j, k \in 1..Len(probe.attrs) :
                      /\ i \in LinesOfRow(probe.attrs[j], probe.total_lines)
                      /\ i \in LinesOfRow(probe.attrs[k], probe.total_lines)
                      /\ probe.attrs[j].session_id # None
                      /\ probe.attrs[k].session_id # None
                      /\ probe.attrs[j].session_id # probe.attrs[k].session_id)
                  => /\ probe.line_meta[i].author_type = "mixed"
                     /\ probe.line_meta[i].ai_percentage = Some(50)

\* Two ai_agent rows of sessions s1 and s2 meet on lines 2 and 3 of a.py.
C14_Witness ==
    /\ probe.op = "lens"
    /\ probe.total_lines = 3
    /\ probe.attrs = <<LensRow(1, 3, Some("s1"), "ai_agent", None),
                       LensRow(2, 4, Some("s2"), "ai_agent", None)>>
    /\ probe.line_meta[1].author_type = "ai_agent"
    /\ probe.line_meta[2].author_type = "mixed"
    /\ probe.line_meta[2].ai_percentage = Some(50)

\* C20: a commit whose only attribution is one ai_agent row of session s1
\* covering 3 lines of a file of N lines has stats ai_agent_lines = 3,
\* human_lines = N - 3, total_lines = N and ai_percentage = 300 / N; in
\* general ai_percentage is (ai_agent_lines + ai_assist_lines +
\* collaborative_lines) / total_lines x 100.  Fractions are compared by
\* cross-multiplication.
C20_ScenarioAStats ==
    probe.op = "stats" =>
        LET stats == Unwrap(probe.out)
            row == probe.attrs[1]
            N == SumLines("c1", FilesWithRows(probe.table))
        IN /\ stats.total_lines > 0 =>
                 stats.ai_percentage[1] * stats.total_lines =
                     (stats.ai_agent_lines + stats.ai_assist_lines + stats.collaborative_lines)
                         * 100 * stats.ai_percentage[2]
           /\ ( /\ Len(probe.attrs) = 1
                /\ row.author_type = "ai_agent" /\ row.session_id = Some("s1")
                /\ row.start_line >= 1 /\ row.end_line = row.start_line + 2 /\ row.end_line <= N )
              => /\ stats.ai_agent_lines = 3
                 /\ stats.human_lines = N - 3
                 /\ stats.total_lines = N
                 /\ stats.ai_percentage[1] * N = 300 * stats.ai_percentage[2]
                 /\ stats.ai_assist_lines = 0 /\ stats.collaborative_lines = 0

\* The one row covers lines 1..3 of b.py, a file of 4 lines.
C20_Witness ==
    /\ probe.op = "stats"
    /\ probe.attrs = <<LensRow(1, 3, Some("s1"), "ai_agent", None)>>
    /\ FilesWithRows(probe.table) = {"b.py"}
    /\ Unwrap(probe.out).ai_agent_lines = 3
    /\ Unwrap(probe.out).human_lines = 1
    /\ Unwrap(probe.out).ai_percentage = <<300, 4>>

(***************************************************************************)
(* Pagination of the source lens.                                          *)
(***************************************************************************)
\* A page request has returned, and not with a store or repository error.
LensDone(fr) == fr.op = "lens" /\ fr.pc = "done" /\ fr.result # "err"

\* offset + limit as the number it is: <<high, low>> with low below 2^16 and
\* high up to 2^17.
ExactSum(a, b) == <<a[1] + b[1] + (a[2] + b[2]) \div 65536, (a[2] + b[2]) % 65536>>

\* C15 as stated: for a file of N lines and every u32 offset and limit, the
\* page request succeeds with total_lines = N and the lines offset+1 ..
\* min(offset+limit, N) in order, has_more exactly when offset+limit < N;
\* with offset >= N the page is empty and has_more is false.
C15_AsStated ==
    \A t \in TaskIds :
        LET fr == tasks[t]
            args == Unwrap(fr.caller)
            page == Unwrap(fr.summary)
            N == FileLines(fr.commit_sha, args.file_path)
            sum == ExactSum(args.offset, args.limit)
            below == sum[1] = 0 /\ sum[2] < N
            last == IF below THEN sum[2] ELSE N
        IN LensDone(fr) =>
              /\ fr.result = "ok"
              /\ page.total_lines = N
              /\ IF args.offset[1] > 0 \/ args.offset[2] >= N
                 THEN page.lines = <<>> /\ ~page.has_more
                 ELSE /\ Len(page.lines) = last - args.offset[2]
                      /\ \A i \in 1..Len(page.lines) :
                            page.lines[i].line_number = args.offset[2] + i
                      /\ page.has_more = below

(***************************************************************************)
(* import_attribution_notes_batch                                          *)
(***************************************************************************)
InBatch(fr) == IsSome(fr.caller) /\ Unwrap(fr.caller).op = "batch"

\* C17: the batch imports the commits of its list once each, in list order;
\* an import that fails counts as failed and the following commits are still
\* imported; the batch returns success, and imported + missing + failed =
\* total = the length of the list.
C17_BatchTalliesEveryCommit ==
    \A t \in TaskIds :
        LET fr == tasks[t]
            b == Unwrap(fr.caller)
            Count(Test(_)) == Cardinality({i \in 1..Len(b.log) : Test(b.log[i])})
        IN InBatch(fr) =>
              /\ [i \in 1..Len(b.log) |-> b.log[i].commit_sha]
                     = SubSeq(b.commit_shas, 1, Len(b.log))
              /\ b.failed = Count(LAMBDA e : e.result = "err")
              /\ b.imported = Count(LAMBDA e : e.result = "ok" /\ e.outcome = "imported")
              /\ b.missing = Count(LAMBDA e : e.result = "ok" /\ e.outcome # "imported")
              /\ fr.op = "import" =>
                    /\ Len(b.log) = b.index - 1
                    /\ b.index <= Len(b.commit_shas)
                    /\ fr.commit_sha = b.commit_shas[b.index]
              /\ (fr.op = "batch" /\ fr.pc = "done") =>
                    /\ fr.result = "ok"
                    /\ Len(b.log) = Len(b.commit_shas)
                    /\ Unwrap(fr.summary).total = Len(b.commit_shas)
                    /\ Unwrap(fr.summary).imported + Unwrap(fr.summary).missing
                           + Unwrap(fr.summary).failed = Unwrap(fr.summary).total
                    /\ Unwrap(fr.summary).failed = b.failed
                    /\ Unwrap(fr.summary).imported = b.imported
                    /\ Unwrap(fr.summary).missing = b.missing

\* A batch of two commits has returned: the import of the first failed, the
\* second was imported all the same.
C17_Witness ==
    \E t \in TaskIds :
        /\ tasks[t].op = "batch" /\ tasks[t].pc = "done"
        /\ Len(Unwrap(tasks[t].caller).commit_shas) = 2
        /\ Unwrap(tasks[t].caller).log[1].result = "err"
        /\ Unwrap(tasks[t].caller).log[2].outcome = "imported"
        /\ Unwrap(tasks[t].summary) = AttributionNoteBatchSummary(1, 0, 1)

(***************************************************************************)
(* The note namespaces.                                                    *)
(***************************************************************************)
NoteUnder(refs, ref, fr) == refs[ref][<<fr.repo_id, fr.commit_sha>>]

OthersAt(refs, ref, fr) ==
    [k \in Keys \ {<<fr.repo_id, fr.commit_sha>>} |-> refs[ref][k]]

NoRows(fr) == DOMAIN RowsOf(line_attributions, fr.repo_id, fr.commit_sha) = {}

\* C18: an export that returns does so with status empty, and without having
\* written a note, exactly when the commit has no rows; otherwise its status
\* is exported and it has put the note it built under the current ref, in
\* place of what was there; no step of an export touches the legacy ref or
\* the note of another commit.
C18_ExportWritesCurrentRef ==
    [][\A t \in TaskIds :
          LET fr == tasks[t]
              after == tasks'[t]
          IN (fr.op = "export" /\ Running(fr)) =>
                /\ notes'[LEGACY_ATTRIBUTION_NOTES_REF] = notes[LEGACY_ATTRIBUTION_NOTES_REF]
                /\ OthersAt(notes', ATTRIBUTION_NOTES_REF, fr)
                       = OthersAt(notes, ATTRIBUTION_NOTES_REF, fr)
                /\ (after.pc = "done" /\ after.result = "ok") =>
                      /\ after.outcome = (IF NoRows(fr) THEN "empty" ELSE "exported")
                      /\ after.outcome = "empty" => notes' = notes /\ fr.pc = "exp_rows"
                      /\ after.outcome = "exported" =>
                            /\ NoteUnder(notes', ATTRIBUTION_NOTES_REF, fr) = after.note
                            /\ Unwrap(after.note).utf8
                            /\ Unwrap(after.note).lines =
                                   build_attribution_note(fr.commit_sha, fr.parsed.files,
                                                          fr.parsed.sources, fr.rewrite_key,
                                                          Some(REWRITE_KEY_ALGORITHM))
                /\ ~(after.pc = "done" /\ after.result = "ok" /\ after.outcome = "exported")
                      => notes' = notes]_vars

\* The export of c1 has replaced the note under the current ref by the one
\* built from the rows; the note under the legacy ref is as it was.
C18_Witness ==
    \E t \in TaskIds :
        LET fr == tasks[t] IN
        /\ fr.op = "export" /\ fr.pc = "done" /\ fr.outcome = "exported"
        /\ <<fr.repo_id, fr.commit_sha>> = <<1, "c1">>
        /\ NoteUnder(notes, LEGACY_ATTRIBUTION_NOTES_REF, fr) = Some(PlainNote)
        /\ NoteUnder(notes, ATTRIBUTION_NOTES_REF, fr) = fr.note
        /\ fr.note # Some(FullNote)
        /\ parse_attribution_note(Unwrap(fr.note).lines).files # <<>>

\* C19: the import reads the note under the current ref when there is one,
\* and the note under the legacy ref only when there is none under the
\* current ref; no step of an import changes a note under either ref.
C19_ImportReadsCurrentFirst ==
    [][\A t \in TaskIds :
          LET fr == tasks[t]
              after == tasks'[t]
              current == NoteUnder(notes, ATTRIBUTION_NOTES_REF, fr)
              legacy == NoteUnder(notes, LEGACY_ATTRIBUTION_NOTES_REF, fr)
          IN (fr.op = "import" /\ Running(fr) /\ fr.pc # "returned") =>
                /\ notes' = notes
                /\ (fr.pc = "imp_read" /\ after.failed = fr.failed) =>
                      /\ after.note = (IF current # None THEN current ELSE legacy)
                      /\ after.note_ref # None =>
                            after.note_ref = Some(IF current # None THEN ATTRIBUTION_NOTES_REF
                                                  ELSE LEGACY_ATTRIBUTION_NOTES_REF)]_vars

\* c1 has a note under both refs; the import has read the one under the
\* current ref.
C19_Witness ==
    \E t \in TaskIds :
        LET fr == tasks[t] IN
        /\ fr.op = "import" /\ fr.pc = "done" /\ fr.outcome = "imported"
        /\ NoteUnder(notes, ATTRIBUTION_NOTES_REF, fr) = Some(FullNote)
        /\ NoteUnder(notes, LEGACY_ATTRIBUTION_NOTES_REF, fr) = Some(PlainNote)
        /\ fr.note = Some(FullNote)
        /\ fr.note_ref = Some(ATTRIBUTION_NOTES_REF)

(***************************************************************************)
(* get_commit_contribution_stats and the failures of ensure.               *)
(***************************************************************************)
StatsDone(fr) == fr.op = "stats" /\ fr.pc = "done"

\* C21: get_commit_contribution_stats returns success whatever ensure
\* returned; when the commit is without rows after ensure (ensure failed, or
\* ended with no rows), has no cached stats and no linked session, the stats
\* returned are human-only (no AI lines, ai_percentage 0), after a failed
\* ensure as after one that succeeded.
C21_StatsSurviveEnsure ==
    \A t \in TaskIds :
        LET fr == tasks[t]
            key == <<fr.repo_id, fr.commit_sha>>
        IN StatsDone(fr) =>
              /\ fr.result = "ok"
              /\ IsSome(fr.summary)
              /\ (NoRows(fr) /\ IsNone(commit_contribution_stats[key])
                    /\ session_links[key] = <<>>) =>
                    LET stats == Unwrap(fr.summary) IN
                    /\ stats.ai_agent_lines = 0
                    /\ stats.ai_assist_lines = 0
                    /\ stats.collaborative_lines = 0
                    /\ stats.ai_percentage = <<0, 1>>

\* ensure failed for a commit with no rows, no cached stats and no linked
\* session, and the command has returned human-only stats.
C21_Witness ==
    \E t \in TaskIds :
        LET fr == tasks[t]
            key == <<fr.repo_id, fr.commit_sha>>
        IN /\ StatsDone(fr)
           /\ Unwrap(fr.caller).ensure = "err"
           /\ NoRows(fr) /\ IsNone(commit_contribution_stats[key])
           /\ session_links[key] = <<>>
           /\ fr.result = "ok"
           /\ fr.summary = Some(compute_human_contribution(0))

(***************************************************************************)
(* The rewrite-key table under its three writers.                          *)
(***************************************************************************)
\* The key and the algorithm the step a call is at is about to write, None
\* when the step writes none.
KeyToWrite(fr) ==
    IF fr.op = "ensure" /\ fr.pc \in {"restore_key", "final_key"}
    THEN Some(<<compute_rewrite_key(fr.commit_sha), REWRITE_KEY_ALGORITHM>>)
    ELSE IF fr.op = "import" /\ fr.pc = "imp_key"
    THEN Some(<<IF IsSome(fr.parsed.rewrite_key) THEN Unwrap(fr.parsed.rewrite_key)
                ELSE compute_rewrite_key(fr.commit_sha),
                IF IsSome(fr.parsed.rewrite_algorithm) THEN Unwrap(fr.parsed.rewrite_algorithm)
                ELSE REWRITE_KEY_ALGORITHM>>)
    ELSE IF fr.op = "export" /\ fr.pc = "exp_key" /\ IsSome(fr.rewrite_key)
    THEN Some(<<Unwrap(fr.rewrite_key), REWRITE_KEY_ALGORITHM>>)
    ELSE None

\* C22: the rewrite-key table has one entry per (repo_id, commit_sha) at
\* most (it is keyed by the pair), an entry once written is never removed,
\* and it changes only by a write of ensure, import or export for its pair;
\* every such write leaves the entry with the key and the algorithm it wrote,
\* whatever the entry held before, unless the store refuses the write.
C22_LastWriteWins ==
    [][\A t \in TaskIds :
          LET fr == tasks[t]
              pair == <<fr.repo_id, fr.commit_sha>>
              write == KeyToWrite(fr)
          IN tasks'[t] # fr =>
                /\ \A k \in Keys \ {pair} : commit_rewrite_keys'[k] = commit_rewrite_keys[k]
                /\ IsNone(write) /\ pair \in Keys =>
                      commit_rewrite_keys'[pair] = commit_rewrite_keys[pair]
                /\ IsSome(write) =>
                      LET written ==
                              /\ IsSome(commit_rewrite_keys'[pair])
                              /\ Unwrap(commit_rewrite_keys'[pair]).rewrite_key = Unwrap(write)[1]
                              /\ Unwrap(commit_rewrite_keys'[pair]).algorithm = Unwrap(write)[2]
                              /\ Unwrap(commit_rewrite_keys'[pair]).updated_at = now
                      IN /\ written \/ commit_rewrite_keys'[pair] = commit_rewrite_keys[pair]
                         /\ faults' = faults => written]_vars

\* An import has replaced the entry that an earlier call wrote for c1: the
\* entry now holds the key and the algorithm of the note, and is older than
\* its last update.
C22_Witness ==
    \E t \in TaskIds :
        LET fr == tasks[t]
            entry == commit_rewrite_keys[<<fr.repo_id, fr.commit_sha>>]
        IN /\ fr.op = "import" /\ fr.pc = "done" /\ fr.outcome = "imported"
           /\ IsSome(entry)
           /\ Unwrap(entry).rewrite_key = ForeignKey
           /\ Unwrap(entry).rewrite_key # compute_rewrite_key(fr.commit_sha)
           /\ Unwrap(entry).created_at < Unwrap(entry).updated_at

(***************************************************************************)
(* The rewrite key as a function of the changed lines.                     *)
(***************************************************************************)
\* The added and removed lines of a diff, in order, as (file path, marker,
\* content without its whitespace); with headers_out, without the lines
\* whose content begins like a header of a patch.
ChangeSequence(lines, headers_out) ==
    LET changed == SelectSeq(lines, LAMBDA l :
                       /\ l.origin \in {"+", "-"}
                       /\ headers_out =>
                             /\ ~StartsWith(l.content, <<"+", "+", "+", " ">>)
                             /\ ~StartsWith(l.content, <<"-", "-", "-", " ">>))
    IN [i \in 1..Len(changed) |->
           <<changed[i].path, changed[i].origin,
             SelectSeq(changed[i].content, LAMBDA ch : ch \notin {" ", "\t"})>>]

\* C23 as stated: two commits whose diffs give the same sequence of (file
\* path, marker, content without whitespace) get the same rewrite key.
C23_AsStated ==
    (probe.op = "keys" /\ ChangeSequence(probe.left, FALSE) = ChangeSequence(probe.right, FALSE))
        => probe.left_key = probe.right_key

\* C23: two commits whose diffs give the same sequence of (file path,
\* marker, content without whitespace) over the added and removed lines that
\* do not begin with `+++ ` or `--- ` get the same rewrite key when that
\* sequence is not empty, whatever their trees, context lines and the
\* whitespace in the lines; when it is empty for both, they get the same key
\* exactly when they have the same tree.
C23_KeyOfHashedLines ==
    (probe.op = "keys" /\ ChangeSequence(probe.left, TRUE) = ChangeSequence(probe.right, TRUE))
        => IF ChangeSequence(probe.left, TRUE) # <<>>
           THEN probe.left_key = probe.right_key
           ELSE probe.left_key = probe.right_key <=> probe.left_tree = probe.right_tree

\* Two commits with different trees whose diffs differ in whitespace and in
\* a context line have the same key.
C23_Witness ==
    /\ probe.op = "keys"
    /\ probe.left = <<DiffLine("a.py", "+", Some(1), <<"x", "=", "1">>)>>
    /\ probe.right = <<DiffLine("a.py", " ", Some(1), <<"y">>),
                       DiffLine("a.py", "+", Some(1), <<"x", " ", "=", "\t", "1">>)>>
    /\ probe.left_tree # probe.right_tree
    /\ probe.left_key = probe.right_key

(***************************************************************************)
(* The rows of a commit after a failed ensure.                             *)
(***************************************************************************)
\* C24 as stated: when ensure returns an error, the rows of its commit are
\* those the commit had before the call.
C24_AsStated ==
    \A t \in TaskIds :
        LET fr == tasks[t] IN
        (EnsureDone(fr) /\ fr.result = "err") =>
            RowsOf(line_attributions, fr.repo_id, fr.commit_sha)
                = RowsOf(Unwrap(fr.pre).rows, fr.repo_id, fr.commit_sha)

(***************************************************************************)
(* The Range Extractor and the events between runs.                        *)
(***************************************************************************)
\* C25 as stated: an event that is neither an addition nor a deletion closes
\* the open run and clears saw_deletion, so the addition that follows it
\* starts a range of its own, and that range is tagged Added.
C25_AsStated ==
    probe.op = "ranges" =>
        \A i \in 2..Len(probe.lines) :
            (probe.lines[i].origin = "+" /\ probe.lines[i - 1].origin \notin {"+", "-"}) =>
                \E j \in 1..Len(probe.out) :
                    /\ probe.out[j].start_line = Unwrap(probe.lines[i].new_lineno)
                    /\ probe.out[j].kind = "Added"

(***************************************************************************)
(* Export followed by import: what the reconciler says before and after.   *)
(***************************************************************************)
\* The verdicts (type, ai_percentage) the reconciler may give the lines of a
\* file of a commit, one per order in which the rows may be fetched.
Verdicts(table, repo_id, commit_sha, file_path) ==
    LET rows == RowsOf(table, repo_id, commit_sha)
        of_file == [r \in {x \in DOMAIN rows : x.file_path = file_path} |-> rows[r]]
        n == FileLines(commit_sha, file_path)
    IN {LET metas == build_line_meta(n, [i \in 1..Len(o) |->
                         [start_line |-> o[i].start_line, end_line |-> o[i].end_line,
                          session_id |-> o[i].session_id, author_type |-> o[i].author_type,
                          ai_percentage |-> o[i].ai_percentage, tool |-> o[i].tool,
                          model |-> o[i].model, trace_available |-> 0]])
        IN [i \in 1..n |-> <<metas[i].author_type, metas[i].ai_percentage>>] :
           o \in RowOrders(of_file)}

\* An import that came right after an export of its commit and stored the
\* note; before is the table the export read.
RoundTrip(fr) ==
    /\ fr.op = "import" /\ fr.pc = "done" /\ fr.result = "ok" /\ fr.outcome = "imported"
    /\ IsSome(fr.prev)
    /\ \A r \in DOMAIN RowsOf(Unwrap(fr.pre).rows, fr.repo_id, fr.commit_sha) :
          IsSome(r.session_id)

\* C26 as stated: export followed by import of a commit whose rows all carry
\* a session id leaves the verdict type and the ai_percentage of every line
\* as they were.
C26_AsStated ==
    \A t \in TaskIds :
        LET fr == tasks[t] IN
        RoundTrip(fr) =>
            \A file_path \in {"a.py", "b.py"} :
                Verdicts(line_attributions, fr.repo_id, fr.commit_sha, file_path)
                    = Verdicts(Unwrap(fr.pre).rows, fr.repo_id, fr.commit_sha, file_path)

\* Rows as an import writes them and as ensure writes them for an Added
\* range: ai_agent or ai_tab without a percentage, a range of lines from 1
\* on, one type per session, and paths and session ids the note can carry.
PlainRows(rows) ==
    /\ \A r \in DOMAIN rows :
          /\ r.author_type \in {"ai_agent", "ai_tab"}
          /\ IsNone(r.ai_percentage)
          /\ 1 <= r.start_line /\ r.start_line <= r.end_line
          /\ Text(r.file_path).words # <<>>
          /\ Text(r.file_path).trim = r.file_path
          /\ r.file_path # "---"
          /\ IsSome(r.session_id) =>
                Text(Unwrap(r.session_id)).words = <<Unwrap(r.session_id)>>
    /\ \A r, q \in DOMAIN rows : r.session_id = q.session_id => r.author_type = q.author_type

\* C26: export followed by import of a commit whose rows all carry a session
\* id, are of type ai_agent or ai_tab without a percentage, one type per
\* session, leaves the verdict type and the ai_percentage of every line as
\* they were.
C26_PlainRowsRoundTrip ==
    \A t \in TaskIds :
        LET fr == tasks[t] IN
        (RoundTrip(fr) /\ PlainRows(RowsOf(Unwrap(fr.pre).rows, fr.repo_id, fr.commit_sha))) =>
            \A file_path \in {"a.py", "b.py"} :
                Verdicts(line_attributions, fr.repo_id, fr.commit_sha, file_path)
                    = Verdicts(Unwrap(fr.pre).rows, fr.repo_id, fr.commit_sha, file_path)

\* A commit with rows of an ai_tab session and of an ai_agent session in one
\* file, one of them stored twice, has been exported and imported again; the
\* import has stored the repeated row once.
C26_Witness ==
    \E t \in TaskIds :
        LET fr == tasks[t]
            before == RowsOf(Unwrap(fr.pre).rows, fr.repo_id, fr.commit_sha)
            after == RowsOf(line_attributions, fr.repo_id, fr.commit_sha)
        IN /\ RoundTrip(fr)
           /\ PlainRows(before)
           /\ \E r, q \in DOMAIN before :
                 /\ r.author_type = "ai_tab" /\ q.author_type = "ai_agent"
                 /\ r.file_path = q.file_path
                 /\ before[r] = 2
                 /\ r \in DOMAIN after /\ after[r] = 1

(***************************************************************************)
(* The cached stats after an import.                                       *)
(***************************************************************************)
\* C27 as stated: after an import that returns imported, with no store call
\* having failed, the cached stats of the commit are the stats of the rows
\* now stored for it (none when it has no rows).
C27_AsStated ==
    \A t \in TaskIds :
        LET fr == tasks[t] IN
        (/\ ImportDone(fr) /\ fr.result = "ok" /\ fr.outcome = "imported"
         /\ faults = 0) =>
            commit_contribution_stats[<<fr.repo_id, fr.commit_sha>>]
                \in compute_contribution_from_attributions(
                        line_attributions, fr.repo_id, fr.commit_sha)

(***************************************************************************)
(* Repository handles and store calls.                                     *)
(***************************************************************************)
\* The positions at which a call is suspended on a store query: every
\* position of a running call but the one of line_attribution.rs line 73,
\* where the next thing done is a repository read, and the return into the
\* awaiting handler.
AwaitsStore(fr) == Running(fr) /\ fr.pc \notin {"ranges", "returned"}

\* C28 as stated: no call is suspended on a store query while a repository
\* handle that it opened is still in scope.
C28_AsStated ==
    \A t \in TaskIds : AwaitsStore(tasks[t]) => ~tasks[t].repo_open

(***************************************************************************)
(* The rows of the Computed branch.                                        *)
(***************************************************************************)
\* The (file, range, session) combinations of a commit: a touched file, the
\* index of one of its changed ranges, and the index of one of the sessions
\* selected for the file.
RowSlots(commit_sha, linked) ==
    UNION {{<<file_path, i, j>> :
                i \in 1..Len(collect_changed_ranges(commit_sha, file_path)),
                j \in 1..Len(TargetIndexes(linked, file_path))} :
           file_path \in list_commit_files(commit_sha)}

\* The row the claim gives to one combination.
SlotRow(repo_id, commit_sha, linked, slot) ==
    LET range == collect_changed_ranges(commit_sha, slot[1])[slot[2]]
        id == linked[TargetIndexes(linked, slot[1])[slot[3]]]
    IN [repo_id |-> repo_id, commit_sha |-> commit_sha, file_path |-> slot[1],
        start_line |-> range.start_line, end_line |-> range.end_line,
        session_id |-> Some(id),
        author_type |-> IF range.kind = "Added" THEN "ai_agent" ELSE "mixed",
        ai_percentage |-> IF range.kind = "Added" THEN None ELSE Some(50),
        tool |-> sessions(id).tool, model |-> sessions(id).model]

\* One row per combination, as a bag.
SlotRows(repo_id, commit_sha, linked) ==
    LET slots == RowSlots(commit_sha, linked)
        row(slot) == SlotRow(repo_id, commit_sha, linked, slot)
    IN [r \in {row(slot) : slot \in slots} |->
            Cardinality({slot \in slots : row(slot) = r})]

\* C29: when ensure leaves through the Computed branch, the rows of its
\* commit are exactly one row per (changed range of a touched file, session
\* selected for the file): ai_agent without percentage for an Added range,
\* mixed with 50 for a Modified one, with the id, tool and model of the
\* session.
C29_ComputedRows ==
    [][\A t \in TaskIds :
          (/\ tasks[t].op = "ensure" /\ tasks[t].pc = "final_key"
           /\ tasks'[t].pc # "final_key") =>
              RowsOf(line_attributions', tasks[t].repo_id, tasks[t].commit_sha)
                  = SlotRows(tasks[t].repo_id, tasks[t].commit_sha, tasks[t].sessions)]_vars

\* An ensure of c1 came back computed: a.py went to both of its sessions,
\* and the range of b.py that follows a deletion is stored as mixed with 50.
C29_Witness ==
    \E t \in TaskIds :
        LET fr == tasks[t]
            rows == BagToSet(RowsOf(line_attributions, fr.repo_id, fr.commit_sha))
        IN /\ EnsureDone(fr) /\ fr.outcome = "computed" /\ fr.commit_sha = "c1"
           /\ \E r, q \in rows :
                 /\ r.file_path = q.file_path /\ r.start_line = q.start_line
                 /\ r.session_id # q.session_id
           /\ \E r \in rows : r.author_type = "mixed" /\ r.ai_percentage = Some(50)
           /\ \E r \in rows : r.author_type = "ai_agent" /\ r.ai_percentage = None

(***************************************************************************)
(* The donor of a restore.                                                 *)
(***************************************************************************)
\* What the claim asks of a donor of the target <<repo_id, commit_sha>>.
Qualifies(repo_id, commit_sha, donor) ==
    /\ donor \in CommitsOf(repo_id)
    /\ donor # commit_sha
    /\ IsSome(commit_rewrite_keys[<<repo_id, donor>>])
    /\ IsSome(commit_rewrite_keys[<<repo_id, commit_sha>>])
    /\ Unwrap(commit_rewrite_keys[<<repo_id, donor>>]).rewrite_key
          = Unwrap(commit_rewrite_keys[<<repo_id, commit_sha>>]).rewrite_key
    /\ \E r \in BagToSet(line_attributions) : r.repo_id = repo_id /\ r.commit_sha = donor

\* An ensure that has chosen its donor and not yet copied from it.
DonorChosen(fr) == fr.op = "ensure" /\ fr.pc = "copy"

\* C30: the donor ensure has chosen is a commit of the same repo with the
\* target's rewrite key, another sha and at least one row, and no other such
\* commit has a rewrite-key entry updated later.
C30_DonorIsLatestQualifying ==
    \A t \in TaskIds :
        LET fr == tasks[t]
            donor == Unwrap(fr.source_commit)
        IN DonorChosen(fr) =>
              /\ Qualifies(fr.repo_id, fr.commit_sha, donor)
              /\ \A other \in CommitsOf(fr.repo_id) :
                    Qualifies(fr.repo_id, fr.commit_sha, other) =>
                        Unwrap(commit_rewrite_keys[<<fr.repo_id, other>>]).updated_at
                            <= Unwrap(commit_rewrite_keys[<<fr.repo_id, donor>>]).updated_at

\* Two commits qualify as donors of c1, their entries updated at different
\* times, and ensure has chosen one of them.
C30_Witness ==
    \E t \in TaskIds :
        LET fr == tasks[t] IN
        /\ DonorChosen(fr)
        /\ \E a, b \in CommitsOf(fr.repo_id) :
              /\ Qualifies(fr.repo_id, fr.commit_sha, a)
              /\ Qualifies(fr.repo_id, fr.commit_sha, b)
              /\ Unwrap(commit_rewrite_keys[<<fr.repo_id, a>>]).updated_at
                    < Unwrap(commit_rewrite_keys[<<fr.repo_id, b>>]).updated_at
              /\ fr.source_commit = Some(b)

(***************************************************************************)
(* The sessions a file's rows go to.                                       *)
(***************************************************************************)
\* The linked sessions whose recorded file list is a readable list that
\* contains the file.
Listing(rows, file_path) ==
    {r.session_id : r \in {q \in rows :
        LET files == sessions(q.session_id).files IN
        /\ IsSome(files) /\ Unwrap(files).ok
        /\ \E i \in 1..Len(Unwrap(files).paths) : Unwrap(files).paths[i] = file_path}}

\* C31: the sessions selected for a file are exactly the linked sessions
\* that list the file, each once; when none lists it, the one selected
\* session is a linked session of the highest confidence, the first of the
\* query's order.
C31_SelectedSessions ==
    probe.op = "selected" =>
        LET listing == Listing(probe.rows, probe.file_path) IN
        IF listing # {}
        THEN /\ Range(probe.out) = listing
             /\ Len(probe.out) = Cardinality(listing)
        ELSE /\ Len(probe.out) = 1
             /\ probe.out[1] = probe.linked[1]
             /\ \E top \in probe.rows :
                   /\ top.session_id = probe.out[1]
                   /\ \A r \in probe.rows : r.confidence <= top.confidence

\* No linked session lists b.py (one has no list, one a list that does not
\* parse, one a list without it), and the session of the highest confidence,
\* not the one linked first or last in time, is selected.
C31_Witness ==
    /\ probe.op = "selected"
    /\ probe.file_path = "b.py"
    /\ {r.session_id : r \in probe.rows} = {"s1", "s3", "s4"}
    /\ probe.out = <<"s4">>
    /\ \A r \in probe.rows : r.session_id # "s4" => r.confidence = 1

(***************************************************************************)
(* The ranges of the Range Extractor and the runs of additions.            *)
(***************************************************************************)
\* Events i and i + 1 are additions at consecutive new line numbers.
Continues(lines, i) ==
    /\ i >= 1 /\ i < Len(lines)
    /\ lines[i].origin = "+" /\ lines[i + 1].origin = "+"
    /\ Unwrap(lines[i + 1].new_lineno) = Unwrap(lines[i].new_lineno) + 1

\* The maximal runs of additions at consecutive line numbers with no other
\* event in between, as pairs of event positions.
AdditionRuns(lines) ==
    {<<i, j>> \in (1..Len(lines)) \X (1..Len(lines)) :
        /\ i <= j
        /\ \A k \in i..j : lines[k].origin = "+"
        /\ \A k \in i..(j - 1) : Continues(lines, k)
        /\ ~Continues(lines, i - 1)
        /\ ~Continues(lines, j)}

\* C32: the ranges of the Range Extractor are well formed, pairwise disjoint,
\* and are exactly the maximal runs of additions, one range per run, the run
\* open at the end of the diff included; so they cover exactly the new line
\* numbers of the additions.
C32_RangesAreAdditionRuns ==
    probe.op = "ranges" =>
        LET out == probe.out
            lines == probe.lines
            runs == AdditionRuns(lines)
        IN /\ \A i \in 1..Len(out) : 1 <= out[i].start_line /\ out[i].start_line <= out[i].end_line
           /\ \A i, j \in 1..Len(out) :
                 i # j => \/ out[i].end_line < out[j].start_line
                          \/ out[j].end_line < out[i].start_line
           /\ Len(out) = Cardinality(runs)
           /\ {<<out[i].start_line, out[i].end_line>> : i \in 1..Len(out)}
                 = {<<Unwrap(lines[r[1]].new_lineno), Unwrap(lines[r[2]].new_lineno)>> : r \in runs}
           /\ UNION {out[i].start_line..out[i].end_line : i \in 1..Len(out)}
                 = {Unwrap(lines[k].new_lineno) : k \in {x \in 1..Len(lines) : lines[x].origin = "+"}}

\* Additions at lines 1, 2 and 4: the run of two becomes one range, and the
\* run that is still open at the end of the diff is emitted as a second one.
C32_Witness ==
    /\ probe.op = "ranges"
    /\ [i \in 1..Len(probe.lines) |-> probe.lines[i].origin] = <<"F", "H", "+", "+", "+">>
    /\ probe.out = <<ChangedRange(1, 2, "Added"), ChangedRange(4, 4, "Added")>>

(***************************************************************************)
(* One row folded into one line.                                           *)
(***************************************************************************)
\* A row has just been folded into the line.
Folded == probe.op = "fold" /\ IsSome(probe.attr)

\* C33: a row folded into a line whose type is still human is adopted
\* wholesale (type, session, tool, model, percentage, trace flag); a row
\* folded into a line of another type leaves the session, tool and model the
\* line has, fills those it has not, and leaves a true trace flag true.
C33_AdoptThenBackfill ==
    Folded =>
        LET prev == probe.prev
            attr == Unwrap(probe.attr)
            meta == probe.meta
            Kept(field) == IF IsSome(prev[field]) THEN meta[field] = prev[field]
                           ELSE meta[field] = attr[field]
        IN IF prev.author_type = "human"
           THEN /\ meta.author_type = attr.author_type
                /\ meta.session_id = attr.session_id
                /\ meta.tool = attr.tool
                /\ meta.model = attr.model
                /\ meta.ai_percentage = attr.ai_percentage
                /\ meta.trace_available = (attr.trace_available > 0)
           ELSE /\ Kept("session_id") /\ Kept("tool") /\ Kept("model")
                /\ meta.author_type # "human"
                /\ prev.trace_available => meta.trace_available
                /\ meta.trace_available = (prev.trace_available \/ attr.trace_available > 0)

\* A line of session s1 with a tool, no model and its trace flag set
\* receives a row of session s2 with another tool, a model and no trace: it
\* keeps session, tool and trace flag and takes the model.
C33_Witness ==
    /\ Folded
    /\ probe.prev.author_type # "human"
    /\ probe.prev.session_id = Some("s1") /\ probe.prev.tool = Some("codex")
    /\ probe.prev.model = None /\ probe.prev.trace_available
    /\ Unwrap(probe.attr).session_id = Some("s2")
    /\ Unwrap(probe.attr).tool = Some("claude")
    /\ Unwrap(probe.attr).trace_available = 0
    /\ probe.meta.session_id = Some("s1") /\ probe.meta.tool = Some("codex")
    /\ probe.meta.model = Some("tab") /\ probe.meta.trace_available

(***************************************************************************)
(* Where the file section of a note ends.                                  *)
(***************************************************************************)
\* The position of the first line for which IsEnd holds, or one past the
\* last line.
FirstLine(lines, IsEnd(_)) ==
    IF \E i \in 1..Len(lines) : IsEnd(lines[i])
    THEN CHOOSE i \in 1..Len(lines) :
            IsEnd(lines[i]) /\ \A j \in 1..(i - 1) : ~IsEnd(lines[j])
    ELSE Len(lines) + 1

\* The text splits at position k: the lines before it alone give the files,
\* the lines after it are the JSON tail.
SplitsAt(k) ==
    /\ probe.json_lines = SubSeq(probe.lines, k + 1, Len(probe.lines))
    /\ probe.parsed.files = parse_attribution_note(SubSeq(probe.lines, 1, k - 1)).files

\* C34 as stated: the file section ends at the first line that is `---`
\* with nothing before or after it; an indented `---` does not end it.
C34_AsStated ==
    probe.op = "parsed" =>
        SplitsAt(FirstLine(probe.lines, LAMBDA l : l.kind = "sep" /\ ~l.indent))

\* C34: the file section ends at the first line that is `---` once the
\* whitespace around it is trimmed; the lines before it are read as file and
\* range lines, all lines after it, later `---` lines included, are the JSON
\* tail; a line with other characters next to `---` does not end it.
C34_SplitAtTrimmedSeparator ==
    probe.op = "parsed" =>
        SplitsAt(FirstLine(probe.lines, LAMBDA l : l.kind = "sep"))

\* A file with a range line of a session called `---`, then an indented
\* `---`, then a second `---`: the range is read, and the tail is the second
\* separator line.
C34_Witness ==
    /\ probe.op = "parsed"
    /\ probe.lines = <<PathLine(FALSE, "a.py"),
                       RangeLineOf(TRUE, "--- 1", "---", <<Seg(FALSE, Some(1), None)>>),
                       SepLine(TRUE), SepLine(FALSE)>>
    /\ probe.parsed.files = <<NoteFile("a.py", <<NoteRange("---", 1, 1)>>)>>
    /\ probe.json_lines = <<SepLine(FALSE)>>

(***************************************************************************)
(* The tokens of a range list.                                             *)
(***************************************************************************)
\* The tokens of a range line that are `N` or `N-M` with N a positive i32.
GoodTokens(line) ==
    {k \in 1..Len(line.segs) : IsSome(line.segs[k].a) /\ Unwrap(line.segs[k].a) > 0}

\* The range lines of the file section that stand under a file line.
RangeLinesOfFiles(lines) ==
    LET end == FirstLine(lines, LAMBDA l : l.kind = "sep") IN
    {i \in 1..(end - 1) :
        /\ lines[i].kind = "ranges" /\ lines[i].indent
        /\ \E j \in 1..(i - 1) : ~lines[j].indent /\ lines[j].kind # "blank"}

\* All ranges of the parsed files, in order.
RECURSIVE AllRanges(_)
AllRanges(files) ==
    IF files = <<>> THEN <<>> ELSE Head(files).ranges \o AllRanges(Tail(files))

\* C35: the parser gives a result for every text; every token that is `N`
\* or `N-M` with N a positive integer gives one range that starts at N, a
\* token that is not gives none and does not stop the other tokens of its
\* line, and every range starts at 1 or above.
C35_BadTokensDropped ==
    probe.op = "parsed" =>
        LET lines == probe.lines
            ranges == AllRanges(probe.parsed.files)
            tokens == {<<i, k>> \in (1..Len(lines)) \X (1..4) :
                          i \in RangeLinesOfFiles(lines) /\ k \in GoodTokens(lines[i])}
        IN /\ \A r \in 1..Len(ranges) : ranges[r].start_line >= 1
           /\ Len(ranges) = Cardinality(tokens)
           /\ \A t \in tokens :
                 \E r \in 1..Len(ranges) :
                    /\ ranges[r].session_id = lines[t[1]].word
                    /\ ranges[r].start_line = Unwrap(lines[t[1]].segs[t[2]].a)

\* A range list with a zero, a word and a 3: one range, for line 3.
C35_Witness ==
    /\ probe.op = "parsed"
    /\ Len(probe.lines) = 2
    /\ probe.lines[2].text = "s1 0, x, 3"
    /\ probe.parsed.files = <<NoteFile("a.py", <<NoteRange("s1", 3, 3)>>)>>

(***************************************************************************)
(* The rewrite key and the tree identifier.                                *)
(***************************************************************************)
\* Two commits with the same diff and different trees.
SameDiffOtherTree ==
    probe.op = "keys" /\ probe.left = probe.right /\ probe.left_tree # probe.right_tree

\* C36 as stated: the key depends on the tree exactly when the diff has no
\* added or removed line; with such lines, commits with equal keys have the
\* same sequence of added and removed lines.
C36_AsStated ==
    /\ SameDiffOtherTree =>
          (probe.left_key # probe.right_key <=> ChangeSequence(probe.left, FALSE) = <<>>)
    /\ (/\ probe.op = "keys"
        /\ ChangeSequence(probe.left, FALSE) # <<>>
        /\ ChangeSequence(probe.right, FALSE) # <<>>
        /\ probe.left_key = probe.right_key) =>
          ChangeSequence(probe.left, FALSE) = ChangeSequence(probe.right, FALSE)

\* C36: the key depends on the tree exactly when the diff has no added or
\* removed line other than lines that begin with `+++ ` or `--- `; when it
\* has one, each of those lines counts for the key (commits with equal keys
\* have the same sequence of them) and the tree does not.
C36_TreeOnlyWithoutHashedLines ==
    /\ SameDiffOtherTree =>
          (probe.left_key # probe.right_key <=> ChangeSequence(probe.left, TRUE) = <<>>)
    /\ (/\ probe.op = "keys"
        /\ ChangeSequence(probe.left, TRUE) # <<>>
        /\ ChangeSequence(probe.right, TRUE) # <<>>
        /\ probe.left_key = probe.right_key) =>
          ChangeSequence(probe.left, TRUE) = ChangeSequence(probe.right, TRUE)

\* Two commits with different trees that both add the line `+++ x` and the
\* line `x=1`: one key, that of a commit that adds `x=1` alone.
C36_Witness ==
    /\ SameDiffOtherTree
    /\ probe.left = <<DiffLine("a.py", "+", Some(1), <<"+", "+", "+", " ", "x">>),
                      DiffLine("a.py", "+", Some(1), <<"x", "=", "1">>)>>
    /\ probe.left_key = probe.right_key
    /\ probe.left_key
          = RewriteKeyOfDiff(<<DiffLine("a.py", "+", Some(1), <<"x", "=", "1">>)>>, "t1")

(***************************************************************************)
(* The two-pointer sweep of count_intersection.                            *)
(***************************************************************************)
\* The line numbers that lie in a range of the list.
LinesOf(ranges) == UNION {ranges[k][1]..ranges[k][2] : k \in 1..Len(ranges)}

SweepDone ==
    /\ probe.op = "sweep"
    /\ probe.i > Len(probe.changed) \/ probe.j > Len(probe.attributed)

\* C37: on two sorted and merged lists count_intersection returns the number
\* of line numbers that lie in a range of both; every iteration of its loop
\* moves one of the two positions one range on, so no range is visited again
\* once left and the loop ends after at most as many iterations as there are
\* ranges.
C37_SweepCountsIntersection ==
    probe.op = "sweep" =>
        /\ count_intersection(probe.changed, probe.attributed)
              = Cardinality(LinesOf(probe.changed) \cap LinesOf(probe.attributed))
        /\ probe.steps = (probe.i - 1) + (probe.j - 1)
        /\ probe.i <= Len(probe.changed) + 1 /\ probe.j <= Len(probe.attributed) + 1
        /\ probe.steps <= Len(probe.changed) + Len(probe.attributed)
        /\ SweepDone => probe.count = count_intersection(probe.changed, probe.attributed)

\* The sweep over (1-2, 4-5) and (2-2, 4-4) has ended after three
\* iterations with the count 2.
C37_Witness ==
    /\ SweepDone
    /\ probe.changed = <<<<1, 2>>, <<4, 5>>>>
    /\ probe.attributed = <<<<2, 2>>, <<4, 4>>>>
    /\ probe.steps = 3 /\ probe.count = 2

(***************************************************************************)
(* The two Range Extractors on one patch.                                  *)
(***************************************************************************)
\* C38 as stated: on the patch of one file the single-file extractor and
\* the all-files extractor give the same list of ranges with the same
\* kinds.
C38_AsStated ==
    probe.op = "ranges" =>
        probe.out = (IF "a.py" \in DOMAIN probe.by_file THEN probe.by_file["a.py"] ELSE <<>>)

(***************************************************************************)
(* Rows that tie on start_line.                                            *)
(***************************************************************************)
\* The verdicts (type, ai_percentage) of the lines of a file of total_lines
\* lines, one per order in which the query may return the rows.
VerdictsOf(total_lines, attrs) ==
    {LET metas == build_line_meta(total_lines, o)
     IN [i \in 1..total_lines |-> <<metas[i].author_type, metas[i].ai_percentage>>] :
        o \in RowOrders(SeqToBag(attrs))}

\* A row of the types and percentages the three INSERT statements write
\* (line_attribution.rs lines 76-77 and 270, notes_io.rs lines 374-375 and
\* 402): ai_agent or ai_tab without a percentage, or mixed with 50.
EngineWritten(attr) ==
    \/ attr.author_type \in {"ai_agent", "ai_tab"} /\ IsNone(attr.ai_percentage)
    \/ attr.author_type = "mixed" /\ attr.ai_percentage = Some(50)

\* C39: for rows as the engine writes them, every order in which the query
\* (ORDER BY start_line) may return the rows of a file gives every line the
\* same verdict type and ai_percentage.
C39_TiedOrderIrrelevant ==
    (probe.op = "lens" /\ \A i \in 1..Len(probe.attrs) : EngineWritten(probe.attrs[i])) =>
        Cardinality(VerdictsOf(probe.total_lines, probe.attrs)) = 1

\* Three rows that start on line 2, an ai_agent row of s1, an ai_tab row of
\* s1 and a mixed row of s2: six orders, and line 2 is mixed with 50.
C39_Witness ==
    /\ probe.op = "lens"
    /\ probe.total_lines = 3
    /\ SeqToBag(probe.attrs) = SetToBag({LensRow(2, 3, Some("s1"), "ai_agent", None),
                                         LensRow(2, 2, Some("s1"), "ai_tab", None),
                                         LensRow(2, 3, Some("s2"), "mixed", Some(50))})
    /\ Cardinality(RowOrders(SeqToBag(probe.attrs))) = 6
    /\ probe.line_meta[2].author_type = "mixed"
    /\ probe.line_meta[2].ai_percentage = Some(50)

(***************************************************************************)
(* The slot of the receiver under start, stop and task completion.         *)
(***************************************************************************)
\* The receiver a start call found in the slot and replaced.
Replaced(id) ==
    \E n \in 1..Len(receivers) :
        /\ receivers[n].old_runtime = Some(id)
        /\ receivers[n].pc # "signal"

\* C40 as stated: every replaced receiver has been sent the shutdown signal,
\* and the slot is occupied exactly while the receiver started last has been
\* neither stopped nor has its task finished; so the task of a replaced
\* receiver never empties the slot of its successor.
C40_AsStated ==
    /\ \A id \in 1..Len(receivers) : Replaced(id) => receivers[id].shutdown = "sent"
    /\ IsSome(runtime) <=>
          /\ receivers # <<>>
          /\ ~receivers[Len(receivers)].stopped
          /\ receivers[Len(receivers)].pc # "finished"

====
